---- MODULE Spec2Model ----
(***************************************************************************)
(* A model of capyvel's reflective field-introspection layer (structaudit), *)
(* its query scope builders, its request binder and its generic CRUD        *)
(* orchestrator (helpers.Orm).                                              *)
(*                                                                          *)
(* Text is modelled by TLA+ strings; a character is a string of length 1.   *)
(* Every handler of the program is one action: it draws its inputs, runs    *)
(* the whole handler and leaves the inputs in `call`, the returned values   *)
(* in `ret` and the calls made on collaborators (storage terminal methods,  *)
(* caller-supplied filter functions, Scan routines) in `trace`.             *)
(* `storage` is the table behind the handle and `handle` the configuration  *)
(* of each storage handle; both outlive a call.  Calls that run together    *)
(* are followed step by step in `procs`, one entry per request goroutine:   *)
(* the one-step actions write a handle's CreateBatchSize as the first entry *)
(* of `trace`, the step-wise ones write it on `handle`.                     *)
(***************************************************************************)
EXTENDS Integers, Sequences, FiniteSets, TLC

VARIABLES call, ret, trace, storage, handle, procs

vars == <<call, ret, trace, storage, handle, procs>>

-----------------------------------------------------------------------------
(* Bounds of the model.                                                     *)

\* longest text enumerated exhaustively over Alphabet
MaxTextLen == 2

(* The characters the exhaustively enumerated texts are made of: a lower    *)
(* and an upper case letter, a digit, an SQL meta-character and a blank.    *)
Alphabet == {"a", "B", "7", ";", " "}

RECURSIVE TextsUpTo(_)
TextsUpTo(n) ==
    IF n = 0 THEN {""}
    ELSE TextsUpTo(n - 1) \cup {s \o c : s \in TextsUpTo(n - 1), c \in Alphabet}

-----------------------------------------------------------------------------
(* Text helpers (Go's strings and regexp packages, as the program uses      *)
(* them).                                                                   *)

Char(s, i) == SubSeq(s, i, i)

\* the characters matched by \s in Go's regexp syntax
RegexSpace == {" ", "\t", "\n", "\f", "\r"}

\* regexp `\s+` replaced by " ": every maximal run of blanks becomes one " "
RECURSIVE CollapseSpaces(_)
CollapseSpaces(s) ==
    IF s = "" THEN ""
    ELSE IF Char(s, 1) \in RegexSpace
         THEN IF Len(s) > 1 /\ Char(s, 2) \in RegexSpace
              THEN CollapseSpaces(SubSeq(s, 2, Len(s)))
              ELSE " " \o CollapseSpaces(SubSeq(s, 2, Len(s)))
         ELSE Char(s, 1) \o CollapseSpaces(SubSeq(s, 2, Len(s)))

RECURSIVE TrimLeft(_)
TrimLeft(s) ==
    IF s # "" /\ Char(s, 1) \in RegexSpace THEN TrimLeft(SubSeq(s, 2, Len(s))) ELSE s

RECURSIVE TrimRight(_)
TrimRight(s) ==
    IF s # "" /\ Char(s, Len(s)) \in RegexSpace
    THEN TrimRight(SubSeq(s, 1, Len(s) - 1)) ELSE s

TrimSpace(s) == TrimRight(TrimLeft(s))

\* mutant: the text is trimmed, its inner runs of blanks are kept
CleanTextTrimOnly(text) == IF text # "" THEN TrimSpace(text) ELSE text

\* helpers.CleanText
CleanText(text) == IF text # "" THEN TrimSpace(CollapseSpaces(text)) ELSE text

\* strings.Contains
Contains(s, sub) ==
    \E i \in 1..(Len(s) - Len(sub) + 1) : SubSeq(s, i, i + Len(sub) - 1) = sub

-----------------------------------------------------------------------------
(* The query under construction (a *gorm.DB statement): the clauses the     *)
(* scopes add to it.  A clause list is in the order the clauses were added. *)

NoErr == "nil"
ErrColumnNotValid == "the column not valid"
ErrNameNotValid == "field 'Name' not declared in the configurations"

\* the statement of a fresh handle
EmptyQuery ==
    [where |-> <<>>, order |-> <<>>, offset |-> <<>>, limit |-> <<>>, model |-> FALSE,
     preload |-> <<>>]

\* db.Order(clause.OrderByColumn{Column: clause.Column{Name: name}, Desc: desc})
DbOrder(db, name, desc) ==
    [db EXCEPT !.order = Append(@, [Column |-> name, Desc |-> desc])]

\* the first entry of the allow-list the requested name matches, 0 when none
OrderMatch(fields, param) ==
    LET hits == {i \in 1..Len(fields) :
                    param = fields[i].TagJson \/ param = fields[i].Name}
    IN IF hits = {} THEN 0 ELSE CHOOSE i \in hits : \A j \in hits : i <= j

\* mutant: a request that matches no entry is used as the column as it stands
ScopeOrderTrusting(db, fields, param0, desc) ==
    LET param == CleanText(param0)
        m     == OrderMatch(fields, param)
    IN IF param # "" /\ Len(fields) > 0
       THEN [db |-> DbOrder(db, IF m # 0 THEN fields[m].Name ELSE param, desc),
             err |-> NoErr]
       ELSE [db |-> db, err |-> NoErr]

\* helpers.ScopeOrder
ScopeOrder(db, fields, param0, desc) ==
    LET param == CleanText(param0)
        m     == OrderMatch(fields, param)
    IN IF param # "" /\ Len(fields) > 0
       THEN IF m # 0
            THEN [db |-> DbOrder(db, fields[m].Name, desc), err |-> NoErr]
            ELSE [db |-> db, err |-> ErrColumnNotValid]
       ELSE [db |-> db, err |-> NoErr]

-----------------------------------------------------------------------------
(* encoding/json, as far as ValidateFieldData uses it: string literals.     *)

Digits == {"0", "1", "2", "3", "4", "5", "6", "7", "8", "9"}
HexDigits == Digits \cup {"a", "b", "c", "d", "e", "f", "A", "B", "C", "D", "E", "F"}

\* characters below 0x20, which a JSON string literal may not hold unescaped
ControlChars == {"\t", "\n", "\f", "\r"}

\* the single-character escapes of a JSON string, and what each stands for
JsonEscapes == {"\"", "\\", "/", "n", "r", "t"}
JsonUnescape(c) ==
    CASE c = "n" -> "\n" [] c = "r" -> "\r" [] c = "t" -> "\t" [] OTHER -> c

\* json.Marshal of a string: the literal's body, quotes left out
RECURSIVE JsonQuoteBody(_)
JsonQuoteBody(s) ==
    IF s = "" THEN ""
    ELSE LET c == Char(s, 1)
             e == CASE c = "\"" -> "\\\""
                    [] c = "\\" -> "\\\\"
                    [] c = "\n" -> "\\n"
                    [] c = "\r" -> "\\r"
                    [] c = "\t" -> "\\t"
                    [] c = "\f" -> "\\u000c"
                    [] c = "<"  -> "\\u003c"
                    [] c = ">"  -> "\\u003e"
                    [] c = "&"  -> "\\u0026"
                    [] OTHER    -> c
         IN e \o JsonQuoteBody(SubSeq(s, 2, Len(s)))

\* the character a \uXXXX escape stands for (those json.Marshal produces)
JsonCodePoint(h) ==
    CASE h = "000c" -> "\f" [] h = "003c" -> "<" [] h = "003e" -> ">"
      [] h = "0026" -> "&" [] OTHER -> "\\u" \o h

(* The body of a JSON string literal scanned and unescaped: ok is FALSE     *)
(* when the body holds an unescaped quote or control character or a bad     *)
(* escape, in which case the document "body" is not valid JSON.             *)
RECURSIVE JsonStringBody(_)
JsonStringBody(s) ==
    IF s = "" THEN [ok |-> TRUE, s |-> ""]
    ELSE LET c == Char(s, 1) IN
         IF c = "\"" \/ c \in ControlChars THEN [ok |-> FALSE, s |-> ""]
         ELSE IF c = "\\"
         THEN IF Len(s) >= 2 /\ Char(s, 2) \in JsonEscapes
              THEN LET r == JsonStringBody(SubSeq(s, 3, Len(s)))
                   IN [ok |-> r.ok, s |-> JsonUnescape(Char(s, 2)) \o r.s]
              ELSE IF /\ Len(s) >= 6 /\ Char(s, 2) = "u"
                      /\ \A i \in 3..6 : Char(s, i) \in HexDigits
              THEN LET r == JsonStringBody(SubSeq(s, 7, Len(s)))
                   IN [ok |-> r.ok, s |-> JsonCodePoint(SubSeq(s, 3, 6)) \o r.s]
              ELSE [ok |-> FALSE, s |-> ""]
         ELSE LET r == JsonStringBody(SubSeq(s, 2, Len(s)))
              IN [ok |-> r.ok, s |-> c \o r.s]

-----------------------------------------------------------------------------
(* package time, as far as timeformats.Date uses it.                        *)

DigitVal(c) == CHOOSE i \in 0..9 : Char("0123456789", i + 1) = c

IsLeap(y) == y % 4 = 0 /\ (y % 100 # 0 \/ y % 400 = 0)

DaysIn(m, y) ==
    IF m = 2 THEN (IF IsLeap(y) THEN 29 ELSE 28)
    ELSE IF m \in {4, 6, 9, 11} THEN 30 ELSE 31

\* time.Parse("2006-01-02", s): a date <<year, month, day>>, or a failure
ParseDate(s) ==
    IF /\ Len(s) = 10
       /\ \A i \in {1, 2, 3, 4, 6, 7, 9, 10} : Char(s, i) \in Digits
       /\ Char(s, 5) = "-" /\ Char(s, 8) = "-"
    THEN LET y == 1000 * DigitVal(Char(s, 1)) + 100 * DigitVal(Char(s, 2))
                  + 10 * DigitVal(Char(s, 3)) + DigitVal(Char(s, 4))
             m == 10 * DigitVal(Char(s, 6)) + DigitVal(Char(s, 7))
             d == 10 * DigitVal(Char(s, 9)) + DigitVal(Char(s, 10))
         IN IF m >= 1 /\ m <= 12 /\ d >= 1 /\ d <= DaysIn(m, y)
            THEN [ok |-> TRUE, v |-> <<y, m, d>>]
            ELSE [ok |-> FALSE, v |-> <<1, 1, 1>>]
    ELSE [ok |-> FALSE, v |-> <<1, 1, 1>>]

DigitChar(n) == Char("0123456789", n + 1)

\* strings.Trim(s, "\"")
RECURSIVE TrimQuotes(_)
TrimQuotes(s) ==
    IF s # "" /\ Char(s, 1) = "\"" THEN TrimQuotes(SubSeq(s, 2, Len(s)))
    ELSE IF s # "" /\ Char(s, Len(s)) = "\"" THEN TrimQuotes(SubSeq(s, 1, Len(s) - 1))
    ELSE s

-----------------------------------------------------------------------------
(* structaudit: record types and field descriptors.                         *)
(*                                                                          *)
(* A record type is the sequence of its fields in declaration order; a      *)
(* field is [Name, Type, Tag] with Type = [kind, ptr] (ptr: the field is a  *)
(* pointer to kind) and Tag a function from tag names to tag values.        *)
(* A value is [form, kind, v]: form tells what holds it ("reflect.New", a   *)
(* reflect.Value of a fresh pointer; "reflect.Zero"; "ptr", a pointer to v; *)
(* "val", v itself).                                                        *)

ErrScanValue == "failed to scan value"
ErrUnmarshalData == "failed to unmarshal data"
ErrMultipleFields == "multiple fields found"
ErrNoFieldFound == "no field found"

Kinds == {"bool", "int", "float", "string", "Date"}

\* the zero value of a kind (a Date is <<year, month, day>>)
ZeroOf(kind) ==
    CASE kind = "bool" -> FALSE
      [] kind = "int" -> 0
      [] kind = "float" -> <<0, 0>>
      [] kind = "string" -> ""
      [] kind = "Date" -> <<1, 1, 1>>

\* whether *kind has a method Scan(interface{}) error
HasScan(kind) == kind = "Date"

\* field.Tag.Get(tagName)
TagGet(field, tagName) ==
    IF tagName \in DOMAIN field.Tag THEN field.Tag[tagName] ELSE ""

NoField == [Name |-> "", TagJson |-> "", Type |-> [kind |-> "none", ptr |-> FALSE],
            Value |-> [form |-> "nil", kind |-> "none", v |-> 0]]

\* the descriptor FindFieldInfoByTag builds for a matching field
TagFieldInfo(field) ==
    [Name |-> field.Name, TagJson |-> "", Type |-> field.Type,
     Value |-> [form |-> "reflect.New", kind |-> field.Type.kind,
                v |-> ZeroOf(field.Type.kind)]]

\* the descriptor FindFieldInfoByName builds for a matching field
NameFieldInfo(field) ==
    [Name |-> field.Name, TagJson |-> "", Type |-> field.Type,
     Value |-> [form |-> IF field.Type.ptr THEN "reflect.New" ELSE "reflect.Zero",
                kind |-> field.Type.kind, v |-> ZeroOf(field.Type.kind)]]

Min(S) == CHOOSE i \in S : \A j \in S : i <= j

\* mutant: on several matches the first one is returned, as on one match
FindFieldInfoByTagFirst(structType, tagName, tagValue) ==
    LET hits == {i \in 1..Len(structType) :
                    Contains(TagGet(structType[i], tagName), tagValue)}
    IN IF hits = {} THEN [info |-> NoField, err |-> ErrNoFieldFound]
       ELSE [info |-> TagFieldInfo(structType[Min(hits)]), err |-> NoErr]

\* structaudit.FindFieldInfoByTag
FindFieldInfoByTag(structType, tagName, tagValue) ==
    LET hits == {i \in 1..Len(structType) :
                    Contains(TagGet(structType[i], tagName), tagValue)}
    IN IF hits = {} THEN [info |-> NoField, err |-> ErrNoFieldFound]
       ELSE IF Cardinality(hits) > 1 THEN [info |-> NoField, err |-> ErrMultipleFields]
       ELSE [info |-> TagFieldInfo(structType[Min(hits)]), err |-> NoErr]

\* unicode.ToLower on the letters of the model's names
Upper == "ABCDEFGHIJKLMNOPQRSTUVWXYZ"
Lower == "abcdefghijklmnopqrstuvwxyz"
LowerChar(c) ==
    IF \E i \in 1..26 : Char(Upper, i) = c
    THEN Char(Lower, CHOOSE i \in 1..26 : Char(Upper, i) = c) ELSE c

\* strings.EqualFold
EqualFold(a, b) ==
    /\ Len(a) = Len(b)
    /\ \A i \in 1..Len(a) : LowerChar(Char(a, i)) = LowerChar(Char(b, i))

\* structaudit.FindFieldInfoByName
FindFieldInfoByName(structType, fieldName) ==
    LET hits == {i \in 1..Len(structType) : EqualFold(structType[i].Name, fieldName)}
    IN IF hits = {} THEN [info |-> NoField, err |-> ErrNoFieldFound]
       ELSE IF Cardinality(hits) > 1 THEN [info |-> NoField, err |-> ErrMultipleFields]
       ELSE [info |-> NameFieldInfo(structType[Min(hits)]), err |-> NoErr]

(* json.Unmarshal of the document "\"" \o body \o "\"" into a fresh *kind.  *)
(* The document is a string literal or it is not valid JSON; a string       *)
(* literal decodes into a string, is handed as it stands to the             *)
(* UnmarshalJSON of a Date, and is a type error for bool, int and float.    *)
JsonUnmarshalQuoted(kind, body) ==
    LET lit == JsonStringBody(body)
    IN IF ~lit.ok THEN [ok |-> FALSE, v |-> ZeroOf(kind)]
       ELSE CASE kind = "string" -> [ok |-> TRUE, v |-> lit.s]
              [] kind = "Date"   -> ParseDate(TrimQuotes("\"" \o body \o "\""))
              [] OTHER           -> [ok |-> FALSE, v |-> ZeroOf(kind)]

\* timeformats.Date.Scan of a string
DateScan(text) == ParseDate(text)

\* mutant: the type's own Scan is tried first, the generic decode after it
ValidateFieldDataScanFirst(fieldInfo, text) ==
    LET kind  == fieldInfo.Type.kind
        w     == JsonStringBody(JsonQuoteBody(text)).s
        scan  == IF HasScan(kind) THEN DateScan(w) ELSE [ok |-> FALSE, v |-> ZeroOf(kind)]
        dec   == JsonUnmarshalQuoted(kind, w)
        out   == IF scan.ok THEN scan ELSE dec
        calls == (IF HasScan(kind) THEN <<[fn |-> "Scan", ok |-> scan.ok]>> ELSE <<>>)
                 \o (IF scan.ok THEN <<>> ELSE <<[fn |-> "json.Unmarshal", ok |-> dec.ok]>>)
    IN IF out.ok
       THEN [err |-> NoErr, trace |-> calls,
             info |-> [fieldInfo EXCEPT !.Value =
                          [form |-> IF fieldInfo.Type.ptr THEN "val" ELSE "ptr",
                           kind |-> kind, v |-> out.v]]]
       ELSE [err |-> IF HasScan(kind) THEN ErrScanValue ELSE ErrUnmarshalData,
             trace |-> calls, info |-> fieldInfo]

(* structaudit.ValidateFieldData: the error, the descriptor as the call     *)
(* leaves it, and the decode routines called, in order.                     *)
ValidateFieldData(fieldInfo, text) ==
    LET kind  == fieldInfo.Type.kind
        \* json.Marshal of {"Value": text}, then json.Unmarshal into Wrapper
        w     == JsonStringBody(JsonQuoteBody(text)).s
        dec   == JsonUnmarshalQuoted(kind, w)
        scan  == DateScan(w)
        calls == <<[fn |-> "json.Unmarshal", ok |-> dec.ok]>>
                 \o (IF ~dec.ok /\ HasScan(kind)
                     THEN <<[fn |-> "Scan", ok |-> scan.ok]>> ELSE <<>>)
        out   == IF dec.ok THEN dec ELSE scan
    IN IF dec.ok \/ (HasScan(kind) /\ scan.ok)
       THEN [err |-> NoErr, trace |-> calls,
             info |-> [fieldInfo EXCEPT !.Value =
                          [form |-> IF fieldInfo.Type.ptr THEN "val" ELSE "ptr",
                           kind |-> kind, v |-> out.v]]]
       ELSE [err |-> IF HasScan(kind) THEN ErrScanValue ELSE ErrUnmarshalData,
             trace |-> calls, info |-> fieldInfo]

-----------------------------------------------------------------------------
(* Inputs of the introspection service.                                     *)

\* most fields of a record type enumerated
MaxFields == 2

NoTag == [t \in {} |-> ""]
GormTag(text) == [t \in {"gorm"} |-> text]

\* the fields record types are made of
FieldPool ==
    { [Name |-> "ID",   Type |-> [kind |-> "int", ptr |-> FALSE],
       Tag |-> GormTag("primaryKey;autoIncrement")],
      [Name |-> "Id",   Type |-> [kind |-> "string", ptr |-> FALSE], Tag |-> NoTag],
      [Name |-> "Code", Type |-> [kind |-> "string", ptr |-> FALSE],
       Tag |-> GormTag("primaryKey")],
      [Name |-> "Day",  Type |-> [kind |-> "Date", ptr |-> TRUE],
       Tag |-> GormTag("column:day;primaryKey")],
      [Name |-> "Old",  Type |-> [kind |-> "bool", ptr |-> FALSE],
       Tag |-> GormTag("column:primaryKey_old")],
      [Name |-> "Name", Type |-> [kind |-> "string", ptr |-> TRUE],
       Tag |-> GormTag("size:64")] }

\* sequences of at most n fields of the pool, no field twice
RECURSIVE TypesUpTo(_)
TypesUpTo(n) ==
    IF n = 0 THEN {<<>>}
    ELSE TypesUpTo(n - 1) \cup
         {Append(t, f) : t \in {u \in TypesUpTo(n - 1) : Len(u) = n - 1},
                         f \in FieldPool} 

RecordTypes ==
    {t \in TypesUpTo(MaxFields) : \A i, j \in 1..Len(t) : t[i] = t[j] => i = j}

TagMarkers == {"primaryKey", "foreignKey", "autoIncrement"}
NameArgs == {"id", "ID", "Id", "code", "CODE", "Cod", "day", "name", "old", ""}

\* values of each kind, to encode as text
SampleValues(kind) ==
    CASE kind = "bool" -> {TRUE, FALSE}
      [] kind = "int" -> {0, 42, -7}
      [] kind = "float" -> {<<1, 5>>, <<0, 0>>}
      [] kind = "string" -> TextsUpTo(MaxTextLen) \cup {"a\"b", "a\\nb", "x<y"}
      [] kind = "Date" -> {<<2024, 2, 29>>, <<1999, 12, 31>>}

\* strconv.Itoa
RECURSIVE Itoa(_)
Itoa(n) ==
    IF n < 0 THEN "-" \o Itoa(-n)
    ELSE IF n < 10 THEN DigitChar(n) ELSE Itoa(n \div 10) \o DigitChar(n % 10)

\* timeformats.Date.Value: Format("2006-01-02")
FormatDate(d) ==
    LET y == d[1] IN
    DigitChar(y \div 1000) \o DigitChar((y \div 100) % 10) \o DigitChar((y \div 10) % 10)
      \o DigitChar(y % 10) \o "-" \o DigitChar(d[2] \div 10) \o DigitChar(d[2] % 10)
      \o "-" \o DigitChar(d[3] \div 10) \o DigitChar(d[3] % 10)

\* the text encoding of a value, as a path parameter carries it
EncodeText(kind, v) ==
    CASE kind = "bool" -> (IF v THEN "true" ELSE "false")
      [] kind = "int" -> Itoa(v)
      [] kind = "float" -> Itoa(v[1]) \o "." \o Itoa(v[2])
      [] kind = "string" -> v
      [] kind = "Date" -> FormatDate(v)

ValidateTexts ==
    TextsUpTo(MaxTextLen)
      \cup UNION {{EncodeText(k, v) : v \in SampleValues(k)} : k \in Kinds}
      \cup {"2024-13-01", "2023-02-29", "2024-02-29 ", "\"2024-02-29\"", "42;drop"}

FieldTypes == [kind : Kinds, ptr : BOOLEAN]

-----------------------------------------------------------------------------
(* helpers.Bind: the JSON body bound into the target, then the auto-fields. *)
(*                                                                          *)
(* The target is [type, data]: data maps each field name to its value.      *)
(* An auto-field policy is [Values, Fields, Tags]: Values maps a value key  *)
(* to [src, val, fails] (src "static", "ctx" for a ContextFunc, "type" for  *)
(* a TypeFunc; fails: the function returns an error), Fields maps a name    *)
(* pattern to a value key, Tags is the list of [Name, Key, Value] rules.    *)

ErrBindBody == "ShouldBindJSON error"
ErrBindUrl == "ShouldBindUri/ShouldBindQuery error"
ErrProducer == "value function error"

NoAutoFields == [Values |-> [k \in {} |-> 0], Fields |-> [k \in {} |-> ""], Tags |-> <<>>]

\* a field reflect can set: an exported one (its name starts in upper case)
CanSet(field) == \E i \in 1..26 : Char(Upper, i) = Char(field.Name, 1)

\* the orders in which `range` may visit the keys of a map
KeyOrders(keys) ==
    {o \in [1..Cardinality(keys) -> keys] : \A i, j \in DOMAIN o : o[i] = o[j] => i = j}

\* the values the producers yield: every key of the policy, once none failed
ProducedValues(autoFields) == [k \in DOMAIN autoFields.Values |-> autoFields.Values[k].val]

(* The value GetAutoFields assigns to one field, when it assigns one: the   *)
(* name patterns are visited in the order ord and the loop ends at the      *)
(* first pattern the field's name contains; the tag rules are tried, in     *)
(* their order, only when that left the field without a value.              *)
AutoValue(field, autoFields, ord) ==
    LET values  == ProducedValues(autoFields)
        nhits   == {k \in 1..Len(ord) : Contains(field.Name, ord[k])}
        byName  == nhits # {} /\ autoFields.Fields[ord[Min(nhits)]] \in DOMAIN values
        thits   == {k \in 1..Len(autoFields.Tags) :
                       Contains(TagGet(field, autoFields.Tags[k].Name),
                                autoFields.Tags[k].Key)}
        byTag   == thits # {} /\ autoFields.Tags[Min(thits)].Value \in DOMAIN values
    IN IF byName THEN [set |-> TRUE, v |-> values[autoFields.Fields[ord[Min(nhits)]]]]
       ELSE IF byTag THEN [set |-> TRUE, v |-> values[autoFields.Tags[Min(thits)].Value]]
       ELSE [set |-> FALSE, v |-> ""]

(* Bind.GetAutoFields: orders[i] is the order in which the patterns of      *)
(* autoFields.Fields are visited for field i (Go leaves the iteration order *)
(* of a map unspecified, and draws it anew for every range statement).      *)
GetAutoFields(objType, autoFields, orders) ==
    IF \E k \in DOMAIN autoFields.Values :
          autoFields.Values[k].src # "static" /\ autoFields.Values[k].fails
    THEN [err |-> ErrProducer, map |-> [n \in {} |-> ""]]
    ELSE LET hit == {i \in 1..Len(objType) :
                        AutoValue(objType[i], autoFields, orders[i]).set}
         IN [err |-> NoErr,
             map |-> [n \in {objType[i].Name : i \in hit} |->
                        LET i == CHOOSE i \in hit : objType[i].Name = n
                        IN AutoValue(objType[i], autoFields, orders[i]).v]]

\* Bind.fillAutoFields
FillAutoFields(objType, data, map) ==
    [n \in DOMAIN data |->
        IF n \in DOMAIN map /\ \E i \in 1..Len(objType) :
                                  objType[i].Name = n /\ CanSet(objType[i])
        THEN map[n] ELSE data[n]]

(* The policy handleAutoFields uses: config.AutoFields when given, else    *)
(* b.autoFields[config.Mode], the zero policy for a mode not registered.    *)
PolicyInForce(mode, explicit, registry) ==
    IF explicit.given THEN explicit.policy
    ELSE IF mode \in DOMAIN registry THEN registry[mode] ELSE NoAutoFields

\* Bind.handleAutoFields: registry is b.autoFields, explicit is config.AutoFields
HandleAutoFields(objType, data, mode, explicit, registry, orders) ==
    IF explicit.given \/ mode # ""
    THEN LET autoFields == PolicyInForce(mode, explicit, registry)
             r == GetAutoFields(objType, autoFields, orders)
         IN IF r.err # NoErr THEN [err |-> r.err, data |-> data]
            ELSE [err |-> NoErr, data |-> FillAutoFields(objType, data, r.map)]
    ELSE [err |-> NoErr, data |-> data]

(* ctx.ShouldBindJSON(config.Obj): the payload's values stored in the       *)
(* exported fields it names; bodyErr: the body is malformed.                *)
ShouldBindJSON(objType, data, payload) ==
    [n \in DOMAIN data |->
        IF n \in DOMAIN payload /\ \E i \in 1..Len(objType) :
                                      objType[i].Name = n /\ CanSet(objType[i])
        THEN payload[n] ELSE data[n]]

(* Bind.Json: returns the error and the target's data as the call leaves    *)
(* them.  urlErr: configUrl is given and binding it fails.                  *)
BindJson(objType, data, payload, bodyErr, urlErr, mode, explicit, registry, orders) ==
    IF bodyErr THEN [err |-> ErrBindBody, data |-> data]
    ELSE LET bound == ShouldBindJSON(objType, data, payload)
         IN IF urlErr THEN [err |-> ErrBindUrl, data |-> bound]
            ELSE HandleAutoFields(objType, bound, mode, explicit, registry, orders)

-----------------------------------------------------------------------------
(* Bind.FormData.  The multipart form is [multipart, File, dataJSON]:       *)
(* whether the request parses as multipart/form-data, the uploaded files    *)
(* [Filename, Size] of each slot in the order sent, and the values of the   *)
(* dataJSON field ("ok": a document that decodes into Obj).  A FileParam is *)
(* [Param, FilesAllowed, AllowedExtension, FilesDatas].                     *)

ErrNoJSONDataFound == "no JSON data found in the request"
ErrTooManyFiles == "too many files uploaded"
ErrFileTooLarge == "file is too large"
ErrInvalidFileExtension == "file has an invalid extension"
ErrNotMultipart == "request Content-Type isn't multipart/form-data"
ErrDataJSON == "json.Unmarshal error"

\* 20 * 1024 * 1024
DefaultMaxFileSize == 20971520

\* strings.ToLower
ToLower(s) == IF s = "" THEN "" ELSE LET F[i \in 1..Len(s)] ==
                                         IF i = 1 THEN LowerChar(Char(s, 1))
                                         ELSE F[i - 1] \o LowerChar(Char(s, i))
                                     IN F[Len(s)]

\* filepath.Ext: the suffix from the last dot of the last path element
RECURSIVE FilepathExtFrom(_, _)
FilepathExtFrom(path, i) ==
    IF i < 1 \/ Char(path, i) = "/" THEN ""
    ELSE IF Char(path, i) = "." THEN SubSeq(path, i, Len(path))
    ELSE FilepathExtFrom(path, i - 1)

FilepathExt(path) == FilepathExtFrom(path, Len(path))

\* the loop of handleFiles over the slot's files, from the i-th on
RECURSIVE HandleFilesFrom(_, _, _, _)
HandleFilesFrom(files, i, fileParam, maxFileSize) ==
    IF i > Len(files) THEN [err |-> NoErr, param |-> fileParam]
    ELSE LET fileHeader == files[i]
             ext == ToLower(FilepathExt(fileHeader.Filename))
         IN IF fileHeader.Size > maxFileSize
            THEN [err |-> ErrFileTooLarge, param |-> fileParam]
            ELSE IF fileParam.AllowedExtension # ""
                    /\ ~Contains(fileParam.AllowedExtension, ext)
            THEN [err |-> ErrInvalidFileExtension, param |-> fileParam]
            ELSE HandleFilesFrom(files, i + 1,
                     [fileParam EXCEPT !.FilesDatas =
                         Append(@, [File |-> fileHeader, Size |-> fileHeader.Size,
                                    Ext |-> ext])],
                     maxFileSize)

\* Bind.handleFiles
HandleFiles(form, fileParam, maxFileSize) ==
    IF ~form.multipart THEN [err |-> ErrNotMultipart, param |-> fileParam]
    ELSE LET files == IF fileParam.Param \in DOMAIN form.File
                      THEN form.File[fileParam.Param] ELSE <<>>
         IN IF Len(files) > fileParam.FilesAllowed
            THEN [err |-> ErrTooManyFiles, param |-> fileParam]
            ELSE HandleFilesFrom(files, 1, fileParam, maxFileSize)

\* the loop of FormData over *config.FilesParams, from the i-th on
RECURSIVE FormDataFiles(_, _, _, _)
FormDataFiles(form, params, i, maxFileSize) ==
    IF i > Len(params) THEN [err |-> NoErr, params |-> params]
    ELSE LET r == HandleFiles(form, params[i], maxFileSize)
             written == [params EXCEPT ![i] = r.param]
         IN IF r.err # NoErr THEN [err |-> r.err, params |-> written]
            ELSE FormDataFiles(form, written, i + 1, maxFileSize)

\* the ConfigJson part of FormData, Mode and AutoFields unset
FormDataJson(form, config) ==
    IF ~config.ConfigJson THEN NoErr
    ELSE IF ~form.multipart THEN ErrNotMultipart
    ELSE IF Len(form.dataJSON) # 1 THEN ErrNoJSONDataFound
    ELSE IF form.dataJSON[1] # "ok" THEN ErrDataJSON
    ELSE NoErr

(* Bind.FormData: the error, and the file slots as the call leaves them     *)
(* (the caller's slice is written through the pointer).  urlFails: binding  *)
(* ConfigUrl fails.                                                         *)
FormData(form, config) ==
    LET maxFileSize == IF config.MaxFileSize = 0 THEN DefaultMaxFileSize
                       ELSE config.MaxFileSize
        files == FormDataFiles(form, config.FilesParams, 1, maxFileSize)
        json  == FormDataJson(form, config)
    IN IF files.err # NoErr THEN files
       ELSE IF json # NoErr THEN [err |-> json, params |-> files.params]
       ELSE IF config.ConfigUrl /\ config.urlFails
       THEN [err |-> ErrBindUrl, params |-> files.params]
       ELSE [err |-> NoErr, params |-> files.params]

-----------------------------------------------------------------------------
(* Inputs of the binder.                                                    *)

\* most tag rules of a policy enumerated
MaxTagRules == 2

StringType == [kind |-> "string", ptr |-> FALSE]

\* the target of a bind: two exported fields and one that is not
BindType ==
    << [Name |-> "CreatedBy", Type |-> StringType,
        Tag |-> [t \in {"auto"} |-> "by,stamp"]],
       [Name |-> "Title", Type |-> StringType, Tag |-> NoTag],
       [Name |-> "owner", Type |-> StringType, Tag |-> [t \in {"auto"} |-> "by"]] >>

FieldNames(objType) == {objType[i].Name : i \in 1..Len(objType)}

\* the target before the call, and the values a client may send
ZeroData(objType) == [n \in FieldNames(objType) |-> ""]
ClientPayloads(objType) ==
    {[n \in {} |-> ""], [n \in FieldNames(objType) |-> "client"]}

UidProducers ==
    { [src |-> "ctx", val |-> "sys-uid", fails |-> FALSE],
      [src |-> "ctx", val |-> "sys-uid", fails |-> TRUE],
      [src |-> "type", val |-> "sys-uid", fails |-> FALSE] }
NowProducer == [src |-> "static", val |-> "sys-now", fails |-> FALSE]

ValueMaps ==
    {[k \in {} |-> NowProducer], [k \in {"now"} |-> NowProducer]}
      \cup {[k \in {"uid"} |-> u] : u \in UidProducers}
      \cup {[k \in {"uid", "now"} |-> IF k = "uid" THEN u ELSE NowProducer] :
               u \in UidProducers}

NamePatterns == {"Created", "By"}
FieldMaps == UNION {[P -> {"uid", "now"}] : P \in SUBSET NamePatterns}

TagRules ==
    { [Name |-> "auto", Key |-> "by", Value |-> "uid"],
      [Name |-> "auto", Key |-> "stamp", Value |-> "now"] }

RECURSIVE TagListsUpTo(_)
TagListsUpTo(n) ==
    IF n = 0 THEN {<<>>}
    ELSE TagListsUpTo(n - 1) \cup
         {Append(l, r) : l \in {u \in TagListsUpTo(n - 1) : Len(u) = n - 1},
                         r \in TagRules}

TagLists ==
    {l \in TagListsUpTo(MaxTagRules) : \A i, j \in 1..Len(l) : l[i] = l[j] => i = j}

Policies == [Values : ValueMaps, Fields : FieldMaps, Tags : TagLists]

\* how a call names its policy: by mode from the registry, or explicitly
PolicyChoices(policy) ==
    { [mode |-> "", explicit |-> [given |-> FALSE, policy |-> NoAutoFields]],
      [mode |-> "create", explicit |-> [given |-> FALSE, policy |-> NoAutoFields]],
      [mode |-> "other", explicit |-> [given |-> FALSE, policy |-> NoAutoFields]],
      [mode |-> "", explicit |-> [given |-> TRUE, policy |-> policy]] }

\* what may go wrong before the auto-fields: nothing, the body, the URL binding
BindFaults == {"none", "body", "url"}

MaxFiles == 2

\* The files a client uploads: within the limits, over 1000 bytes, over
\* 20 MB, and with extensions in upper case, cut short, absent or foreign.
UploadPool ==
    {[Filename |-> "a.jpg", Size |-> 10],
     [Filename |-> "B.JPG", Size |-> 1000],
     [Filename |-> "c.jp", Size |-> 10],
     [Filename |-> "README", Size |-> 10],
     [Filename |-> "e.exe", Size |-> 10],
     [Filename |-> "m.jpg", Size |-> 1001],
     [Filename |-> "x.png", Size |-> DefaultMaxFileSize + 1]}

RECURSIVE UploadsUpTo(_)
UploadsUpTo(n) ==
    IF n = 0 THEN {<<>>}
    ELSE LET shorter == UploadsUpTo(n - 1)
         IN shorter \cup {Append(u, f) : u \in shorter, f \in UploadPool}

\* The requests FormData reads: a photo slot of up to MaxFiles files, a
\* doc slot, and the dataJSON values.
Forms ==
    {[multipart |-> mp, File |-> [k \in {"photo", "doc"} |->
                                     IF k = "photo" THEN photos ELSE docs],
      dataJSON |-> dj] :
        mp \in BOOLEAN, photos \in UploadsUpTo(MaxFiles),
        docs \in {<<>>, <<[Filename |-> "cv.pdf", Size |-> 1001]>>},
        dj \in {<<>>, <<"ok">>}}
    \cup {[multipart |-> TRUE, File |-> [k \in {"photo", "doc"} |-> <<>>],
           dataJSON |-> dj] : dj \in {<<"bad">>, <<"ok", "ok">>}}

\* The slots a handler declares: none, the photo slot, or the photo slot and
\* then the doc slot.
SlotLists ==
    LET photo(n, allowed) == [Param |-> "photo", FilesAllowed |-> n,
                              AllowedExtension |-> allowed, FilesDatas |-> <<>>]
        doc == [Param |-> "doc", FilesAllowed |-> 1, AllowedExtension |-> ".pdf",
                FilesDatas |-> <<>>]
        photos == {photo(n, a) : n \in 0..MaxFiles, a \in {"", ".jpg", ".jpg,.png"}}
    IN {<<>>} \cup {<<ph>> : ph \in photos} \cup {<<ph, doc>> : ph \in photos}

FormConfigs ==
    {[MaxFileSize |-> max, FilesParams |-> slots, ConfigJson |-> tail.json,
      ConfigUrl |-> tail.url, urlFails |-> tail.fails] :
        max \in {0, 1000}, slots \in SlotLists,
        tail \in {[json |-> FALSE, url |-> FALSE, fails |-> FALSE],
                  [json |-> TRUE, url |-> TRUE, fails |-> FALSE],
                  [json |-> TRUE, url |-> TRUE, fails |-> TRUE]}}

-----------------------------------------------------------------------------
(* helpers.Orm: Get, Update and Delete.                                     *)
(*                                                                          *)
(* The type of the obj argument is [kind, elem] for a pointer or a slice,   *)
(* [kind, fields] for a struct, [kind] otherwise.  A handler's outcome is   *)
(* [api, err, panic]: the *responses.Api, the *responses.Error, and whether *)
(* the call ended in a run-time panic instead of returning.                 *)

PtrT(e) == [kind |-> "ptr", elem |-> e]
SliceT(e) == [kind |-> "slice", elem |-> e]
StructT(fields) == [kind |-> "struct", fields |-> fields]
IntT == [kind |-> "int"]
ArrayT(e) == [kind |-> "array", elem |-> e]
NilT == [kind |-> "nil"]

ErrNotPointer == "object must be a pointer"
ErrInvalidStructure == "object must be a valid structure"

\* structaudit.NormalizePointerType, on the type of obj
\* (reflect.TypeOf of an untyped nil is a nil Type, and Kind on it panics)
NormalizePointerType(objT) ==
    IF objT.kind = "nil" THEN [typ |-> NilT, err |-> NoErr, panic |-> TRUE]
    ELSE IF objT.kind # "ptr" THEN [typ |-> NilT, err |-> ErrNotPointer, panic |-> FALSE]
    ELSE IF objT.elem.kind = "slice"
         THEN [typ |-> objT.elem.elem, err |-> NoErr, panic |-> FALSE]
    ELSE IF objT.elem.kind = "struct"
         THEN [typ |-> objT.elem, err |-> NoErr, panic |-> FALSE]
    ELSE [typ |-> NilT, err |-> ErrInvalidStructure, panic |-> FALSE]

\* the indices in s, in increasing order, as a sequence
RECURSIVE SeqOfSet(_)
SeqOfSet(S) == IF S = {} THEN <<>> ELSE <<Min(S)>> \o SeqOfSet(S \ {Min(S)})

\* structaudit.ExtractFieldsByTag, on a struct type's fields
ExtractFieldsByTag(fields, tagName, tagKey) ==
    LET hits == SeqOfSet({i \in 1..Len(fields) :
                             Contains(TagGet(fields[i], tagName), tagKey)})
    IN [k \in 1..Len(hits) |-> fields[hits[k]].Name]

TypeDB == "DB"
TypeBind == "BIND"
TypeUnknown == "UNKNOWN"
StatusBadRequest == 400
StatusInternalServerError == 500
DefaultKeyParam == "id"

ErrReadingDeclaredModel == "error reading declared model"
ErrCreatingObjectsInDB == "error creating objects in the database"
ErrCreatingObjectInDB == "error creating object in the database"
ErrNormalizingReceivedObject == "error normalizing received object"
ErrObtainingObjectInfo == "error obtaining object information"
ErrValidatingIDParam == "error validating ID parameter"
ErrFetchingObject == "error fetching object"
ErrUpdatingObjectInDB == "error updating object in the database"
ErrSoftDeletingObject == "error performing soft delete on the object"
ErrHardDeletingObject == "error performing hard delete on the object"

NoApi == [Data |-> "nil", Relationships |-> <<>>]
NoError == [Message |-> "", Error |-> NoErr, Type |-> "", Code |-> 0]

\* helpers.ErrorResponse, as a handler returns it
ErrorResponse(message, err, errType, code) ==
    [api |-> NoApi, panic |-> FALSE,
     err |-> [Message |-> message, Error |-> err, Type |-> errType, Code |-> code]]

\* return &responses.Api{Data: data, Relationships: relations}, nil
Success(data, relations) ==
    [api |-> [Data |-> data, Relationships |-> relations], err |-> NoError,
     panic |-> FALSE]

\* the call panicked (reflect on a type that is no struct)
Panicked == [api |-> NoApi, err |-> NoError, panic |-> TRUE]

\* mutant: of several fields carrying the primaryKey marker the first is taken
ResolveKeyFirstMatch(fields, columnKey) ==
    IF columnKey # "" THEN FindFieldInfoByName(fields, columnKey)
    ELSE FindFieldInfoByTagFirst(fields, "gorm", "primaryKey")

\* the identity field: by config.ColumnKey when set, else by the primaryKey tag
ResolveKey(fields, columnKey) ==
    IF columnKey # "" THEN FindFieldInfoByName(fields, columnKey)
    ELSE FindFieldInfoByTag(fields, "gorm", "primaryKey")

\* ctx.Param(key): the path parameter's value, "" when the route has none
CtxParam(req, key) == IF key = req.name THEN req.value ELSE ""

\* the characters of [a-zA-Z0-9]
AlphaNum == Digits \cup {Char(Upper, i) : i \in 1..26} \cup {Char(Lower, i) : i \in 1..26}

\* mutant: the pattern without its anchors: some character of [a-zA-Z0-9]
MatchValidPatternUnanchored(text) == \E i \in 1..Len(text) : Char(text, i) \in AlphaNum

\* regexp.MustCompile(`^[a-zA-Z0-9]+$`).MatchString
MatchValidPattern(text) ==
    Len(text) >= 1 /\ \A i \in 1..Len(text) : Char(text, i) \in AlphaNum

(* The value of the key predicate: the descriptor's coerced Value, or with  *)
(* DisableValidationKey the raw text once it matches the pattern.           *)
KeyValue(fieldInfo, disableValidationKey, paramValue) ==
    IF ~disableValidationKey
    THEN LET r == ValidateFieldData(fieldInfo, paramValue)
         IN [err |-> r.err, failed |-> r.err # NoErr, value |-> r.info.Value]
    ELSE IF ~MatchValidPattern(paramValue)
         THEN [err |-> NoErr, failed |-> TRUE, value |-> fieldInfo.Value]
         ELSE [err |-> NoErr, failed |-> FALSE,
               value |-> [form |-> "val", kind |-> "string", v |-> paramValue]]

KeyParamOf(config) == IF config.KeyParam # "" THEN config.KeyParam ELSE DefaultKeyParam

\* the names Get reports: foreignKey fields, then many2many fields
Relations(fields) ==
    ExtractFieldsByTag(fields, "gorm", "foreignKey")
      \o ExtractFieldsByTag(fields, "gorm", "many2many")

(* Orm.Get: the outcome and the storage terminal methods called, in order.  *)
(* env.dbErr is the error the storage call reports.                         *)
OrmGet(objT, config, req, env) ==
    LET norm == NormalizePointerType(objT)
        Fetch(fieldInfo, val) ==
            LET c == [fn |-> "First", handle |-> config.Db,
                      query |-> fieldInfo.Name \o " = ?", arg |-> val.value]
            IN IF val.failed
               THEN [out |-> ErrorResponse(ErrValidatingIDParam, val.err, TypeBind,
                                           StatusBadRequest), calls |-> <<>>]
               ELSE IF env.dbErr # NoErr
               THEN [out |-> ErrorResponse(ErrFetchingObject, env.dbErr, TypeDB,
                                           StatusInternalServerError),
                     calls |-> <<c>>]
               ELSE [out |-> Success("obj", Relations(norm.typ.fields)),
                     calls |-> <<c>>]
        Resolved(key) ==
            IF key.err # NoErr
            THEN [out |-> ErrorResponse(ErrObtainingObjectInfo, key.err, TypeUnknown,
                                        StatusInternalServerError), calls |-> <<>>]
            ELSE Fetch(key.info, KeyValue(key.info, config.DisableValidationKey,
                                          CtxParam(req, KeyParamOf(config))))
    IN IF norm.err # NoErr
       THEN [out |-> ErrorResponse(ErrNormalizingReceivedObject, norm.err,
                                   TypeUnknown, StatusInternalServerError),
             calls |-> <<>>]
       ELSE IF norm.typ.kind # "struct" THEN [out |-> Panicked, calls |-> <<>>]
       ELSE Resolved(ResolveKey(norm.typ.fields, config.ColumnKey))

\* mutant: a delete that matched no row is reported as a failure
OrmDeleteRowsChecked(objT, config, req, env) ==
    LET norm == NormalizePointerType(objT)
        Remove(fieldInfo, val) ==
            LET c == [fn |-> "Delete", handle |-> config.Db,
                      unscoped |-> ~config.SoftDelete,
                      query |-> fieldInfo.Name \o " = ?", arg |-> val.value]
            IN IF val.failed
               THEN [out |-> ErrorResponse(ErrValidatingIDParam, val.err, TypeBind,
                                           StatusBadRequest), calls |-> <<>>]
               ELSE IF env.dbErr # NoErr \/ env.rowsAffected = 0
               THEN [out |-> ErrorResponse(IF config.SoftDelete
                                           THEN ErrSoftDeletingObject
                                           ELSE ErrHardDeletingObject,
                                           IF env.dbErr # NoErr THEN env.dbErr
                                           ELSE "record not found", TypeDB,
                                           StatusInternalServerError),
                     calls |-> <<c>>]
               ELSE [out |-> Success("obj", <<>>), calls |-> <<c>>]
        Resolved(key) ==
            IF key.err # NoErr
            THEN [out |-> ErrorResponse(ErrObtainingObjectInfo, key.err, TypeUnknown,
                                        StatusInternalServerError), calls |-> <<>>]
            ELSE Remove(key.info, KeyValue(key.info, config.DisableValidationKey,
                                           CtxParam(req, KeyParamOf(config))))
    IN IF norm.err # NoErr
       THEN [out |-> ErrorResponse(ErrNormalizingReceivedObject, norm.err,
                                   TypeUnknown, StatusInternalServerError),
             calls |-> <<>>]
       ELSE IF norm.typ.kind # "struct" THEN [out |-> Panicked, calls |-> <<>>]
       ELSE Resolved(ResolveKey(norm.typ.fields, config.ColumnKey))

(* Orm.Delete: a soft delete goes through Model(obj), a hard one through    *)
(* Unscoped().                                                              *)
OrmDelete(objT, config, req, env) ==
    LET norm == NormalizePointerType(objT)
        Remove(fieldInfo, val) ==
            LET c == [fn |-> "Delete", handle |-> config.Db,
                      unscoped |-> ~config.SoftDelete,
                      query |-> fieldInfo.Name \o " = ?", arg |-> val.value]
            IN IF val.failed
               THEN [out |-> ErrorResponse(ErrValidatingIDParam, val.err, TypeBind,
                                           StatusBadRequest), calls |-> <<>>]
               ELSE IF env.dbErr # NoErr
               THEN [out |-> ErrorResponse(IF config.SoftDelete
                                           THEN ErrSoftDeletingObject
                                           ELSE ErrHardDeletingObject,
                                           env.dbErr, TypeDB,
                                           StatusInternalServerError),
                     calls |-> <<c>>]
               ELSE [out |-> Success("obj", <<>>), calls |-> <<c>>]
        Resolved(key) ==
            IF key.err # NoErr
            THEN [out |-> ErrorResponse(ErrObtainingObjectInfo, key.err, TypeUnknown,
                                        StatusInternalServerError), calls |-> <<>>]
            ELSE Remove(key.info, KeyValue(key.info, config.DisableValidationKey,
                                           CtxParam(req, KeyParamOf(config))))
    IN IF norm.err # NoErr
       THEN [out |-> ErrorResponse(ErrNormalizingReceivedObject, norm.err,
                                   TypeUnknown, StatusInternalServerError),
             calls |-> <<>>]
       ELSE IF norm.typ.kind # "struct" THEN [out |-> Panicked, calls |-> <<>>]
       ELSE Resolved(ResolveKey(norm.typ.fields, config.ColumnKey))

\* the registry of the Orm's binder: mode "update" stamps the sized fields
OrmAutoFields(stampFails) ==
    [m \in {"update"} |->
        [Values |-> [k \in {"now"} |-> [src |-> "ctx", val |-> "sys-now",
                                        fails |-> stampFails]],
         Fields |-> NoAutoFields.Fields,
         Tags |-> <<[Name |-> "gorm", Key |-> "size", Value |-> "now"]>>]]

(* Orm.Update.  The write of CreateBatchSize goes to the handle itself,     *)
(* before Omit or Session derive the statement the update runs on; it is    *)
(* the first entry of calls.  env.bodyErr: the body is malformed;           *)
(* env.stampFails: a value function of the binder fails.                    *)
OrmUpdate(objT, config, req, env) ==
    LET setBatch == [fn |-> "CreateBatchSize=", handle |-> config.Db,
                     value |-> IF config.BatchesSize > 0 THEN config.BatchesSize
                               ELSE -1]
        norm == NormalizePointerType(objT)
        Store(fieldInfo, data, val) ==
            LET c == [fn |-> "UpdateColumns", handle |-> config.Db,
                      attach |-> config.WithAttach,
                      query |-> fieldInfo.Name \o " = ?", arg |-> val.value,
                      obj |-> data]
            IN IF val.failed
               THEN [out |-> ErrorResponse(ErrValidatingIDParam, val.err, TypeBind,
                                           StatusBadRequest),
                     calls |-> <<setBatch>>]
               ELSE IF env.dbErr # NoErr
               THEN [out |-> ErrorResponse(ErrUpdatingObjectInDB, env.dbErr, TypeDB,
                                           StatusInternalServerError),
                     calls |-> <<setBatch, c>>]
               ELSE [out |-> Success(data, <<>>), calls |-> <<setBatch, c>>]
        Bound(fieldInfo, bound) ==
            IF /\ ~config.DisableBind /\ ~env.bodyErr /\ config.BindMode # ""
               /\ objT.elem.kind = "slice"
               /\ ~(config.BindMode = "update" /\ env.stampFails)
            THEN \* handleAutoFields reads the fields of *obj, a slice: a panic
                 [out |-> Panicked, calls |-> <<setBatch>>]
            ELSE IF bound.err # NoErr
            THEN [out |-> ErrorResponse(ErrReadingDeclaredModel, bound.err, TypeBind,
                                        StatusBadRequest), calls |-> <<setBatch>>]
            ELSE Store(fieldInfo, bound.data,
                       KeyValue(fieldInfo, config.DisableValidationKey,
                                CtxParam(req, KeyParamOf(config))))
        Resolved(key) ==
            IF key.err # NoErr
            THEN [out |-> ErrorResponse(ErrObtainingObjectInfo, key.err, TypeUnknown,
                                        StatusInternalServerError),
                  calls |-> <<setBatch>>]
            ELSE Bound(key.info,
                       IF config.DisableBind
                       THEN [err |-> NoErr, data |-> ZeroData(norm.typ.fields)]
                       ELSE BindJson(norm.typ.fields, ZeroData(norm.typ.fields),
                                     req.payload, env.bodyErr, FALSE, config.BindMode,
                                     [given |-> FALSE, policy |-> NoAutoFields],
                                     OrmAutoFields(env.stampFails),
                                     [i \in 1..Len(norm.typ.fields) |-> <<>>]))
    IN IF norm.err # NoErr
       THEN [out |-> ErrorResponse(ErrNormalizingReceivedObject, norm.err,
                                   TypeUnknown, StatusInternalServerError),
             calls |-> <<setBatch>>]
       ELSE IF norm.typ.kind # "struct"
       THEN [out |-> Panicked, calls |-> <<setBatch>>]
       ELSE Resolved(ResolveKey(norm.typ.fields, config.ColumnKey))

\* the batch size of CreateInBatches when the config gives none
DefaultBatches == 20

\* structaudit.GetObjectKind, on the type of obj
GetObjectKind(objT) == IF objT.kind = "ptr" THEN objT.elem.kind ELSE objT.kind

(* The INSERT statements CreateInBatches runs for n records: the sizes of   *)
(* the slices of at most batchSize records it cuts the collection into.     *)
RECURSIVE Chunks(_, _)
Chunks(n, batchSize) ==
    IF n <= 0 \/ batchSize <= 0 THEN <<>>
    ELSE IF n <= batchSize THEN <<n>>
    ELSE <<batchSize>> \o Chunks(n - batchSize, batchSize)

\* mutant: the batch size of the config is passed on as it is, also when not positive
BatchesOfUnchecked(config) == config.BatchesSize

\* the batch size Add hands to CreateInBatches
BatchesOf(config) ==
    IF config.BatchesSize > 0 THEN config.BatchesSize ELSE DefaultBatches

(* Orm.Add.  obj points to a record or to a collection of req.items         *)
(* records.  Omit leaves db on the configuration of the handle, a Session   *)
(* works on a copy of it: the write of CreateBatchSize, the first entry of  *)
(* calls, goes to the one or the other.                                     *)
OrmAdd(objT, config, req, env) ==
    LET collection == GetObjectKind(objT) = "slice"
        fields == IF collection THEN objT.elem.elem.fields ELSE objT.elem.fields
        setBatch == [fn |-> "CreateBatchSize=",
                     handle |-> IF config.WithAttach THEN "session" ELSE config.Db,
                     value |-> IF config.BatchesSize > 0 THEN config.BatchesSize
                               ELSE -1]
        Insert(data) ==
            LET c == IF collection
                     THEN [fn |-> "CreateInBatches", handle |-> config.Db,
                           attach |-> config.WithAttach,
                           batches |-> BatchesOf(config),
                           inserts |-> Chunks(req.items, BatchesOf(config)),
                           obj |-> [items |-> req.items, each |-> data]]
                     ELSE [fn |-> "Create", handle |-> config.Db,
                           attach |-> config.WithAttach, batches |-> 0,
                           inserts |-> <<1>>, obj |-> data]
            IN IF env.dbErr # NoErr
               THEN [out |-> ErrorResponse(IF collection THEN ErrCreatingObjectsInDB
                                           ELSE ErrCreatingObjectInDB,
                                           env.dbErr, TypeDB,
                                           StatusInternalServerError),
                     calls |-> <<setBatch, c>>]
               ELSE [out |-> Success(c.obj, <<>>), calls |-> <<setBatch, c>>]
        Bound(bound) ==
            IF /\ ~config.DisableBind /\ ~env.bodyErr /\ config.BindMode # ""
               /\ collection
               /\ ~(config.BindMode = "update" /\ env.stampFails)
            THEN \* handleAutoFields reads the fields of *obj, a slice: a panic
                 [out |-> Panicked, calls |-> <<setBatch>>]
            ELSE IF bound.err # NoErr
            THEN [out |-> ErrorResponse(ErrReadingDeclaredModel, bound.err, TypeBind,
                                        StatusBadRequest), calls |-> <<setBatch>>]
            ELSE Insert(bound.data)
    IN Bound(IF config.DisableBind
             THEN [err |-> NoErr, data |-> ZeroData(fields)]
             ELSE BindJson(fields, ZeroData(fields), req.payload, env.bodyErr, FALSE,
                           config.BindMode,
                           [given |-> FALSE, policy |-> NoAutoFields],
                           OrmAutoFields(env.stampFails),
                           [i \in 1..Len(fields) |-> <<>>]))

-----------------------------------------------------------------------------
(* Storage, as List uses it: a table is the sequence of its rows in the     *)
(* order the database scans them; a where clause is [sql, cols, op, args],  *)
(* true of a row when one of its columns stands in op to its argument.      *)

\* SQL LIKE: % matches any run of characters, _ any one character
RECURSIVE Like(_, _)
Like(text, pattern) ==
    IF pattern = "" THEN text = ""
    ELSE IF Char(pattern, 1) = "%"
    THEN \/ Like(text, SubSeq(pattern, 2, Len(pattern)))
         \/ text # "" /\ Like(SubSeq(text, 2, Len(text)), pattern)
    ELSE /\ text # ""
         /\ Char(pattern, 1) \in {"_", Char(text, 1)}
         /\ Like(SubSeq(text, 2, Len(text)), SubSeq(pattern, 2, Len(pattern)))

\* whether the row satisfies the where clause
Holds(row, w) ==
    \E i \in 1..Len(w.cols) :
        IF w.op = "LIKE" THEN Like(row[w.cols[i]], w.args[i])
        ELSE row[w.cols[i]] = w.args[i]

\* the rows of the table the statement's conditions select, in scan order
Matching(rows, db) ==
    SelectSeq(rows, LAMBDA row : \A k \in 1..Len(db.where) : Holds(row, db.where[k]))

\* whether row a comes before row b under the ORDER BY columns
RECURSIVE Before(_, _, _)
Before(a, b, order) ==
    IF order = <<>> THEN FALSE
    ELSE LET c == Head(order)
         IN IF a[c.Column] = b[c.Column] THEN Before(a, b, Tail(order))
            ELSE IF c.Desc THEN a[c.Column] > b[c.Column]
            ELSE a[c.Column] < b[c.Column]

\* the rows sorted by the ORDER BY columns, ties left in scan order
RECURSIVE Sorted(_, _)
Sorted(rows, order) ==
    IF rows = <<>> THEN <<>>
    ELSE LET firsts == {i \in 1..Len(rows) :
                           \A j \in 1..Len(rows) : ~Before(rows[j], rows[i], order)}
             i == Min(firsts)
         IN <<rows[i]>> \o Sorted(SubSeq(rows, 1, i - 1)
                                    \o SubSeq(rows, i + 1, Len(rows)), order)

(* Count on the statement: a SELECT of the row count with the statement's  *)
(* clauses; an OFFSET skips the one row the count comes in.                 *)
StorageCount(rows, db) ==
    IF db.offset # <<>> /\ db.offset[1] > 0 THEN 0 ELSE Len(Matching(rows, db))

(* Find and Scan on the statement: the selected rows, sorted, from the      *)
(* offset on (when positive), at most limit of them (when not negative).    *)
StorageFind(rows, db) ==
    LET sorted == Sorted(Matching(rows, db), db.order)
        from   == IF db.offset # <<>> /\ db.offset[1] > 0 THEN db.offset[1] ELSE 0
        rest   == SubSeq(sorted, from + 1, Len(sorted))
    IN IF db.limit # <<>> /\ db.limit[1] >= 0 /\ db.limit[1] < Len(rest)
       THEN SubSeq(rest, 1, db.limit[1]) ELSE rest

-----------------------------------------------------------------------------
(* helpers.Orm.List, stage by stage.  The stages hand on [db, failed, err,  *)
(* calls, totalRows, page, pageSize, data]; a stage that finds the call     *)
(* failed leaves everything as it is.                                       *)

ErrParamsQuery == "error in 'Params query'"
ErrCountingTotalRows == "error counting total rows"
ErrScanningRecords == "error scanning records"
ErrScanningModelRecords == "error scanning model records"
DefaultPageSize == 30

\* strings.Join
RECURSIVE Join(_, _)
Join(elems, sep) ==
    IF elems = <<>> THEN ""
    ELSE IF Len(elems) = 1 THEN elems[1]
    ELSE elems[1] \o sep \o Join(Tail(elems), sep)

\* mutant: the names of the fields are not looked at
ScopeSearchUnchecked(db, fields, param0) ==
    LET param == CleanText(param0)
    IN IF param = "" \/ Len(fields) = 0 THEN [db |-> db, err |-> NoErr]
       ELSE [db |-> [db EXCEPT !.where = Append(@,
                       [sql  |-> "(" \o Join([i \in 1..Len(fields) |->
                                                fields[i].Name \o " LIKE ?"], " OR ")
                                     \o ")",
                        cols |-> [i \in 1..Len(fields) |-> fields[i].Name],
                        op   |-> "LIKE",
                        args |-> [i \in 1..Len(fields) |-> "%" \o param \o "%"]])],
             err |-> NoErr]

\* helpers.ScopeSearch
ScopeSearch(db, fields, param0) ==
    LET param == CleanText(param0)
    IN IF param = "" THEN [db |-> db, err |-> NoErr]
       ELSE IF \E i \in 1..Len(fields) : fields[i].Name = ""
       THEN [db |-> db, err |-> ErrNameNotValid]
       ELSE IF Len(fields) = 0 THEN [db |-> db, err |-> NoErr]
       ELSE [db |-> [db EXCEPT !.where = Append(@,
                       [sql  |-> "(" \o Join([i \in 1..Len(fields) |->
                                                fields[i].Name \o " LIKE ?"], " OR ")
                                     \o ")",
                        cols |-> [i \in 1..Len(fields) |-> fields[i].Name],
                        op   |-> "LIKE",
                        args |-> [i \in 1..Len(fields) |-> "%" \o param \o "%"]])],
             err |-> NoErr]

\* helpers.ScopePagination(page, pageSize, count), applied to db
ScopePagination(page, pageSize, count, db) ==
    [db EXCEPT !.offset = <<page * pageSize>>, !.limit = <<pageSize>>]

\* the stage record of a call that has not failed yet
ListStart ==
    [db |-> EmptyQuery, failed |-> FALSE, err |-> NoError, calls |-> <<>>,
     totalRows |-> 0, page |-> 0, pageSize |-> 0, data |-> <<>>]

\* return nil, ErrorResponse(message, err, errType, code), the calls made so far kept
ListFail(st, calls, message, err, errType, code) ==
    [st EXCEPT !.failed = TRUE, !.calls = calls,
               !.err = ErrorResponse(message, err, errType, code).err]

\* mutant: the error of the query binding is dropped
ListParamsIgnored(st, queryErr) == st

\* orm.bind.Url into the OrmParams: queryErr is the error of the query binding
ListParams(st, queryErr) ==
    IF queryErr # NoErr
    THEN ListFail(st, st.calls, ErrParamsQuery, queryErr, TypeBind, StatusBadRequest)
    ELSE st

\* mutant: a filter's error is passed over and the next filters still run
RECURSIVE ListFiltersLenient(_, _)
ListFiltersLenient(st, filters) ==
    IF st.failed \/ filters = <<>> THEN st
    ELSE LET f == Head(filters)
             calls == Append(st.calls, [fn |-> "filter", name |-> f.name, db |-> st.db])
         IN ListFiltersLenient(
                [st EXCEPT !.calls = calls,
                           !.db = IF f.err # NoErr THEN @
                                  ELSE [@ EXCEPT !.where = @ \o f.where]],
                Tail(filters))

(* The loop over config.FilterFunctions.  A filter is [name, where, err]:   *)
(* called with the query so far, it returns the query with its conditions   *)
(* added, or its error.                                                     *)
RECURSIVE ListFilters(_, _)
ListFilters(st, filters) ==
    IF st.failed \/ filters = <<>> THEN st
    ELSE LET f == Head(filters)
             calls == Append(st.calls, [fn |-> "filter", name |-> f.name, db |-> st.db])
         IN IF f.err # NoErr
            THEN ListFail(st, calls, ErrParamsQuery, f.err, TypeBind, StatusBadRequest)
            ELSE ListFilters([st EXCEPT !.calls = calls,
                                        !.db = [@ EXCEPT !.where = @ \o f.where]],
                             Tail(filters))

\* ScopeSearch, when config.SearchFields is not nil
ListSearch(st, config, param) ==
    IF st.failed \/ config.SearchFields.isNil THEN st
    ELSE LET r == ScopeSearch(st.db, config.SearchFields.list, param.Search)
             calls == Append(st.calls, [fn |-> "ScopeSearch", db |-> st.db])
         IN IF r.err # NoErr
            THEN ListFail(st, calls, ErrParamsQuery, r.err, TypeBind, StatusBadRequest)
            ELSE [st EXCEPT !.calls = calls, !.db = r.db]

\* db.Model(obj) unless ScanObj, then Count on a session of the statement
ListCount(st, config, env) ==
    IF st.failed THEN st
    ELSE LET db == IF config.ScanObj THEN st.db ELSE [st.db EXCEPT !.model = TRUE]
             calls == Append(st.calls, [fn |-> "Count", db |-> db])
         IN IF env.countErr # NoErr
            THEN ListFail(st, calls, ErrCountingTotalRows, env.countErr, TypeDB,
                          StatusInternalServerError)
            ELSE [st EXCEPT !.calls = calls, !.db = db,
                            !.totalRows = StorageCount(env.rows, db)]

\* mutant: without an allow-list the requested text is the order column
ListOrderUnlisted(st, config, param) ==
    IF st.failed THEN st
    ELSE LET fields == config.OrderFields.list
             defaultOrderFieldRepeated ==
                 \E i \in 1..Len(fields) :
                     /\ fields[i].Name = config.DefaultOrderBy
                     /\ param.OrderBy = config.DefaultOrderBy
             byDefault == config.DefaultOrderBy # "" /\ ~defaultOrderFieldRepeated
             db == IF byDefault
                   THEN DbOrder(st.db, config.DefaultOrderBy, config.DefaultOrderDesc)
                   ELSE st.db
             calls == IF byDefault
                      THEN Append(st.calls, [fn |-> "Order", db |-> st.db])
                      ELSE st.calls
             Ordered(r) ==
                 IF r.err # NoErr
                 THEN ListFail(st, Append(calls, [fn |-> "ScopeOrder", db |-> db]),
                               ErrParamsQuery, r.err, TypeBind, StatusBadRequest)
                 ELSE [st EXCEPT !.db = r.db,
                          !.calls = Append(calls, [fn |-> "ScopeOrder", db |-> db])]
         IN IF config.OrderFields.isNil
            THEN [st EXCEPT !.calls = calls,
                            !.db = IF CleanText(param.OrderBy) = "" THEN db
                                   ELSE DbOrder(db, CleanText(param.OrderBy),
                                                param.OrderDesc)]
            ELSE Ordered(ScopeOrder(db, fields, param.OrderBy, param.OrderDesc))

\* the default order unless the client asks for that very field, then ScopeOrder
ListOrder(st, config, param) ==
    IF st.failed THEN st
    ELSE LET fields == config.OrderFields.list
             defaultOrderFieldRepeated ==
                 \E i \in 1..Len(fields) :
                     /\ fields[i].Name = config.DefaultOrderBy
                     /\ param.OrderBy = config.DefaultOrderBy
             byDefault == config.DefaultOrderBy # "" /\ ~defaultOrderFieldRepeated
             db == IF byDefault
                   THEN DbOrder(st.db, config.DefaultOrderBy, config.DefaultOrderDesc)
                   ELSE st.db
             calls == IF byDefault
                      THEN Append(st.calls, [fn |-> "Order", db |-> st.db])
                      ELSE st.calls
             Ordered(r) ==
                 IF r.err # NoErr
                 THEN ListFail(st, Append(calls, [fn |-> "ScopeOrder", db |-> db]),
                               ErrParamsQuery, r.err, TypeBind, StatusBadRequest)
                 ELSE [st EXCEPT !.db = r.db,
                          !.calls = Append(calls, [fn |-> "ScopeOrder", db |-> db])]
         IN IF config.OrderFields.isNil THEN [st EXCEPT !.db = db, !.calls = calls]
            ELSE Ordered(ScopeOrder(db, fields, param.OrderBy, param.OrderDesc))

\* mutant: the client's page size is taken as it stands, whatever the limit
ResolvePagingUncapped(param, configLimit, totalRows) ==
    LET limit == IF configLimit = 0 THEN DefaultPageSize ELSE configLimit
    IN [Page |-> IF param.Page < 0 THEN 0 ELSE param.Page,
        PageSize |-> IF param.PageSize <= 0
                     THEN IF limit = -1 THEN totalRows
                          ELSE IF limit > 0 THEN limit ELSE DefaultPageSize
                     ELSE param.PageSize]

\* the page and the page size List goes on with
ResolvePaging(param, configLimit, totalRows) ==
    LET limit == IF configLimit = 0 THEN DefaultPageSize ELSE configLimit
    IN [Page |-> IF param.Page < 0 THEN 0 ELSE param.Page,
        PageSize |-> IF param.PageSize <= 0
                     THEN IF limit = -1 THEN totalRows
                          ELSE IF limit > 0 THEN limit ELSE DefaultPageSize
                     ELSE IF param.PageSize > limit THEN limit ELSE param.PageSize]

\* the paging resolved, and ScopePagination unless DisablePagination
ListPage(st, config, param) ==
    IF st.failed THEN st
    ELSE LET p == ResolvePaging(param, config.Limit, st.totalRows)
         IN IF config.DisablePagination
            THEN [st EXCEPT !.page = p.Page, !.pageSize = p.PageSize]
            ELSE [st EXCEPT !.page = p.Page, !.pageSize = p.PageSize,
                     !.db = ScopePagination(p.Page, p.PageSize, st.totalRows, @),
                     !.calls = Append(@, [fn |-> "ScopePagination", db |-> st.db])]

\* mutant: with ScanObj the rows are scanned and then also found
ListFetchBoth(st, config, env) ==
    IF st.failed THEN st
    ELSE LET scan == IF config.ScanObj THEN <<[fn |-> "Scan", db |-> st.db]>> ELSE <<>>
             calls == st.calls \o scan \o <<[fn |-> "Find", db |-> st.db]>>
         IN IF env.fetchErr # NoErr
            THEN ListFail(st, calls, ErrScanningModelRecords, env.fetchErr, TypeDB,
                          StatusInternalServerError)
            ELSE [st EXCEPT !.calls = calls, !.data = StorageFind(env.rows, st.db)]

\* Scan when ScanObj, else Find
ListFetch(st, config, env) ==
    IF st.failed THEN st
    ELSE LET calls == Append(st.calls, [fn |-> IF config.ScanObj THEN "Scan" ELSE "Find",
                                        db |-> st.db])
         IN IF env.fetchErr # NoErr
            THEN ListFail(st, calls,
                          IF config.ScanObj THEN ErrScanningRecords
                          ELSE ErrScanningModelRecords,
                          env.fetchErr, TypeDB, StatusInternalServerError)
            ELSE [st EXCEPT !.calls = calls, !.data = StorageFind(env.rows, st.db)]

\* strings.TrimRight(path, "/")
RECURSIVE TrimRightSlash(_)
TrimRightSlash(path) ==
    IF path # "" /\ Char(path, Len(path)) = "/"
    THEN TrimRightSlash(SubSeq(path, 1, Len(path) - 1)) ELSE path

\* mutant: a link never names a page below 0
PageLinkClamped(baseURL, page, pageSize) ==
    baseURL \o "?page=" \o Itoa(IF page < 0 THEN 0 ELSE page)
      \o "&pageSize=" \o Itoa(pageSize)

\* fmt.Sprintf("%s?page=%d&pageSize=%d", baseURL, page, pageSize)
PageLink(baseURL, page, pageSize) ==
    baseURL \o "?page=" \o Itoa(page) \o "&pageSize=" \o Itoa(pageSize)

\* the envelope of a List that went through, the error of one that did not
ListEnvelope(st, req) ==
    IF st.failed
    THEN [out |-> [api |-> NoApi, err |-> st.err, panic |-> FALSE], calls |-> st.calls]
    ELSE LET baseURL == TrimRightSlash(req.path)
         IN [out |-> [api |-> [Data |-> st.data,
                               Meta |-> [page |-> st.page, pageSize |-> st.pageSize],
                               Links |-> [self |-> PageLink(baseURL, st.page, st.pageSize),
                                          next |-> PageLink(baseURL, st.page + 1,
                                                            st.pageSize),
                                          prev |-> PageLink(baseURL, st.page - 1,
                                                            st.pageSize)],
                               TotalRows |-> st.totalRows],
                      err |-> NoError, panic |-> FALSE],
             calls |-> st.calls]

\* mutant: the rows are counted last, on the ordered and paginated statement
OrmListCountLast(config, req, env) ==
    ListEnvelope(
      ListFetch(
        ListCount(
          ListPage(
            ListOrder(
              ListSearch(
                ListFilters(ListParams(ListStart, env.queryErr),
                            config.FilterFunctions),
                config, req.param),
              config, req.param),
            config, req.param),
          config, env),
        config, env),
      req)

(* Orm.List: the outcome, and in order the filters called, the scopes       *)
(* applied and the storage terminal methods called, each with the           *)
(* statement it was called on.                                              *)
OrmList(config, req, env) ==
    ListEnvelope(
      ListFetch(
        ListPage(
          ListOrder(
            ListCount(
              ListSearch(
                ListFilters(ListParams(ListStart, env.queryErr),
                            config.FilterFunctions),
                config, req.param),
              config, env),
            config, req.param),
          config, req.param),
        config, env),
      req)

-----------------------------------------------------------------------------
(* structaudit.LocateFieldType and helpers.ScopeRelations.  Here a field is *)
(* [Name, Type], its Type built with PtrT, SliceT, StructT.                 *)

ErrFieldNotExist == "field specified in the structure does not exist"

\* strings.Split(s, ".")
RECURSIVE Split(_)
Split(s) ==
    LET dots == {i \in 1..Len(s) : Char(s, i) = "."}
    IN IF dots = {} THEN <<s>>
       ELSE <<SubSeq(s, 1, Min(dots) - 1)>> \o Split(SubSeq(s, Min(dots) + 1, Len(s)))

\* structaudit.LocateFieldType; objType is a struct type
RECURSIVE LocateFieldType(_, _, _)
LocateFieldType(objType, fieldPath, maxDepth0) ==
    LET parts == Split(fieldPath)
        maxDepth == IF (maxDepth0 = -1 \/ maxDepth0 > 0) /\ Len(parts) > 1
                    THEN maxDepth0 - 1 ELSE maxDepth0
        hits == {i \in 1..Len(objType.fields) : objType.fields[i].Name = parts[1]}
        Found(field) ==
            IF /\ Len(parts) > 1
               /\ maxDepth = -1 \/ maxDepth > 0
               /\ field.Type.kind = "ptr"
               /\ field.Type.elem.kind = "struct"
            THEN LocateFieldType(field.Type.elem, Join(Tail(parts), "."), maxDepth)
            ELSE [typ |-> field.Type, err |-> NoErr]
    IN IF hits = {} THEN [typ |-> "nil", err |-> ErrFieldNotExist]
       ELSE Found(objType.fields[Min(hits)])

\* db.Preload(relation)
DbPreload(db, relation) == [db EXCEPT !.preload = Append(@, relation)]

\* helpers.ScopeRelations
RECURSIVE ScopeRelations(_, _, _)
ScopeRelations(db, relations, objType) ==
    IF relations = <<>> THEN [db |-> db, err |-> NoErr]
    ELSE LET r == LocateFieldType(objType, Head(relations), -1)
         IN IF r.err # NoErr THEN [db |-> "nil", err |-> r.err]
            ELSE ScopeRelations(DbPreload(db, Head(relations)), Tail(relations),
                                objType)

-----------------------------------------------------------------------------
(* configuration.Configuration.  A configured value is a record of kind,    *)
(* text and entries: a string, or a map[string]any from keys to values; nil *)
(* is what indexing a map with a key it does not hold yields.               *)

NilValue == [kind |-> "nil", text |-> "", entries |-> [k \in {} |-> ""]]
StringValue(text) == [kind |-> "string", text |-> text, entries |-> NilValue.entries]
MapValue(entries) == [kind |-> "map", text |-> "", entries |-> entries]

\* config[currentKey]
MapIndex(config, currentKey) ==
    IF currentKey \in DOMAIN config THEN config[currentKey] ELSE NilValue

\* configuration.getConfigValue
RECURSIVE getConfigValue(_, _, _)
getConfigValue(config, keys, defaultValue) ==
    IF Len(keys) = 0 THEN defaultValue
    ELSE LET currentKey == keys[1]
             remainingKeys == Tail(keys)
         IN IF Len(remainingKeys) = 0 THEN MapIndex(config, currentKey)
            ELSE IF MapIndex(config, currentKey).kind = "map"
            THEN getConfigValue(MapIndex(config, currentKey).entries, remainingKeys,
                                defaultValue)
            ELSE defaultValue

\* Configuration.Get
ConfigurationGet(configurations, path, defaultValue) ==
    getConfigValue(configurations, Split(path), defaultValue)

\* The configurations registered with Configuration.Add: none, an app
\* section with and without its timezone, a section that is no map, and a
\* nested one.
Configurations ==
    LET db == [k \in {"host"} |-> StringValue("db1")]
    IN {[k \in {} |-> NilValue],
        [k \in {"app"} |-> MapValue([j \in {"timezone", "env"} |->
                                        IF j = "env" THEN StringValue("dev")
                                        ELSE StringValue("UTC")])],
        [k \in {"app"} |-> MapValue([j \in {"env"} |-> StringValue("release")])],
        [k \in {"app"} |-> StringValue("capyvel")],
        [k \in {"app", "db"} |-> IF k = "db" THEN MapValue(db)
                                 ELSE MapValue([j \in {"db"} |-> MapValue(db)])]}

ConfigKeys == {"app", "timezone", "env", "db", "host", ""}

\* the dotted paths of up to n keys
RECURSIVE ConfigPathsUpTo(_)
ConfigPathsUpTo(n) ==
    IF n = 1 THEN ConfigKeys
    ELSE ConfigPathsUpTo(n - 1)
           \cup {q \o "." \o k : q \in ConfigPathsUpTo(n - 1), k \in ConfigKeys}

ConfigDefaults == {StringValue("America/Mexico_City"), NilValue}

-----------------------------------------------------------------------------
(* responses: the envelopes Api.OK and Api.Error write.                    *)

StatusOK == 200
StatusNoContent == 204

\* the gorm errors TranslateDBError knows, each with its translation
DBErrorTexts ==
    << <<"record not found", "Record not found">>,
       <<"invalid transaction", "Invalid transaction">>,
       <<"not implemented", "Function not implemented">>,
       <<"WHERE conditions required", "Missing WHERE clause">>,
       <<"unsupported relations", "Unsupported relation">>,
       <<"primary key required", "Primary key required">>,
       <<"model value required", "Model value required">>,
       <<"unsupported data", "Invalid data">>,
       <<"duplicated key not allowed", "Duplicated key">> >>

\* responses.TranslateDBError
TranslateDBError(err) ==
    IF \E i \in 1..Len(DBErrorTexts) : DBErrorTexts[i][1] = err
    THEN DBErrorTexts[CHOOSE i \in 1..Len(DBErrorTexts) : DBErrorTexts[i][1] = err][2]
    ELSE err

\* responses.TranslateBindError
TranslateBindError(err) == err

\* ErrorDetail.LoadDetail, on the detail e
LoadDetail(e) ==
    LET translatedError ==
            IF e.Error # NoErr
            THEN CASE e.Type = TypeDB -> TranslateDBError(e.Error)
                   [] e.Type = TypeBind -> TranslateBindError(e.Error)
                   [] OTHER -> e.Error
            ELSE "Undefined error"
        loaded == IF e.Details = "" THEN [e EXCEPT !.Details = translatedError] ELSE e
    IN IF loaded.Type # TypeDB /\ loaded.Type # TypeBind
       THEN [loaded EXCEPT !.Type = TypeUnknown]
       ELSE loaded

\* Api.Error: what ctx.JSON is given, code and body, and the abort of the request
ApiError(e) ==
    LET code == IF e.Code = 0 THEN StatusInternalServerError ELSE e.Code
    IN [code |-> code,
        body |-> [e EXCEPT !.ErrorDetail = LoadDetail(e.ErrorDetail),
                           !.Code = code, !.Status = code, !.Success = FALSE],
        aborted |-> TRUE]

\* Api.OK: what ctx.JSON is given, code and body
ApiOK(a) ==
    LET status == IF a.Data = "nil" THEN StatusNoContent ELSE StatusOK
    IN [code |-> StatusOK,
        body |-> [a EXCEPT !.Status = status, !.Success = TRUE],
        aborted |-> FALSE]

\* the errors a handler hands to Api.Error
ErrorDetails ==
    [Error : {NoErr, "record not found", "duplicated key not allowed", "EOF"},
     Type : {TypeDB, TypeBind, TypeUnknown, "", "db", "AUTH"},
     Message : {ErrFetchingObject},
     Details : {"", "no such row"}]

ErrorEnvelopes ==
    [ErrorDetail : ErrorDetails, Status : {0, 200}, Code : {0, 400, 404, 500},
     Success : BOOLEAN]

\* the envelopes a handler hands to Api.OK; Data "nil" is the nil interface
ApiEnvelopes ==
    [Data : {"nil", "row", "rows", "no rows"}, TotalRows : {0, 2},
     Message : {"", "done"}, Status : {0, 500}, Success : BOOLEAN]

-----------------------------------------------------------------------------
(* Inputs of Get, Update and Delete.                                        *)

\* record types whose identity resolves, one per kind of key
KeyTypes ==
    {t \in RecordTypes :
        /\ Len(t) = 1
        /\ Contains(TagGet(t[1], "gorm"), "primaryKey")}

\* fields that refer to other records
RelationPool ==
    { [Name |-> "Owner", Type |-> [kind |-> "struct", ptr |-> TRUE],
       Tag |-> GormTag("foreignKey:OwnerID")],
      [Name |-> "Parts", Type |-> [kind |-> "slice", ptr |-> FALSE],
       Tag |-> GormTag("foreignKey:WidgetID")],
      [Name |-> "Tags",  Type |-> [kind |-> "slice", ptr |-> FALSE],
       Tag |-> GormTag("many2many:widget_tags")],
      [Name |-> "Peers", Type |-> [kind |-> "slice", ptr |-> FALSE],
       Tag |-> GormTag("many2many:peers;foreignKey:ID")] }

RECURSIVE RelationsUpTo(_)
RelationsUpTo(n) ==
    IF n = 0 THEN {<<>>}
    ELSE RelationsUpTo(n - 1) \cup
         {Append(t, f) : t \in {u \in RelationsUpTo(n - 1) : Len(u) = n - 1},
                         f \in RelationPool}

\* record types of a string key and up to MaxFields relation fields, none twice
RelationTypes ==
    {<<[Name |-> "Code", Type |-> [kind |-> "string", ptr |-> FALSE],
        Tag |-> GormTag("primaryKey")]>> \o t :
        t \in {u \in RelationsUpTo(MaxFields) :
                  \A i, j \in 1..Len(u) : u[i] = u[j] => i = j}}

\* path values: every short text, and values of each kind of key
KeyTexts ==
    TextsUpTo(MaxTextLen)
      \cup {"42", "-7", "A1b2", "2024-02-29", "2024-13-01", "42;drop", "1 OR 1=1"}

\* what obj may be besides a pointer to a record or to a slice of records
OddShapes(t) == {StructT(t), PtrT(IntT), PtrT(SliceT(IntT)), PtrT(PtrT(StructT(t)))}

\* The arguments of NormalizePointerType: the untyped nil, and every type
\* built from a record type or a scalar by at most one slice, array or
\* pointer, bare and behind a pointer.
NormalizeArgs ==
    LET base   == {StructT(t) : t \in RecordTypes} \cup {IntT, [kind |-> "string"]}
        shaped == base \cup {SliceT(b) : b \in base} \cup {ArrayT(b) : b \in base}
                       \cup {PtrT(b) : b \in base}
    IN shaped \cup {PtrT(x) : x \in shaped} \cup {NilT}

(* The arguments the three operations share: obj's type, the ColumnKey and  *)
(* KeyParam of the config, DisableValidationKey, and the request's path     *)
(* parameter.  Each family varies one part.                                 *)
CrudInputs ==
    {[objT |-> PtrT(StructT(t)), ColumnKey |-> "", KeyParam |-> "", dvk |-> d,
      req |-> [name |-> "id", value |-> v]] :
        t \in KeyTypes, v \in KeyTexts, d \in BOOLEAN}
    \cup
    {[objT |-> o, ColumnKey |-> ck, KeyParam |-> "", dvk |-> d,
      req |-> [name |-> "id", value |-> v]] :
        o \in {PtrT(StructT(t)) : t \in RecordTypes}
                 \cup {PtrT(SliceT(StructT(t))) : t \in KeyTypes}
                 \cup UNION {OddShapes(t) : t \in KeyTypes},
        ck \in {"", "id", "code", "nope"}, v \in {"42"}, d \in BOOLEAN}
    \cup
    {[objT |-> PtrT(StructT(t)), ColumnKey |-> "", KeyParam |-> kp, dvk |-> d,
      req |-> [name |-> n, value |-> v]] :
        t \in KeyTypes, kp \in {"", "key"}, n \in {"id", "key"},
        v \in {"7", "x;"}, d \in BOOLEAN}
    \cup
    {[objT |-> PtrT(StructT(t)), ColumnKey |-> "", KeyParam |-> "", dvk |-> d,
      req |-> [name |-> "id", value |-> "42"]] : t \in RelationTypes, d \in BOOLEAN}

\* the errors the storage call may report
DbErrors == {NoErr, "record not found"}

\* the handles a config may carry: none (the Orm's own is used) or its own
Handles == {"orm.db", "tx"}

\* the ways a Get is configured and storage answers
GetOptions ==
    {[Db |-> "orm.db", DisableRelations |-> dr, dbErr |-> e] :
        dr \in BOOLEAN, e \in DbErrors}
    \cup {[Db |-> "tx", DisableRelations |-> FALSE, dbErr |-> NoErr]}

\* the ways a Delete is configured and storage answers
DeleteOptions ==
    {[Db |-> "orm.db", SoftDelete |-> soft, dbErr |-> e] :
        soft \in BOOLEAN, e \in DbErrors}
    \cup {[Db |-> "tx", SoftDelete |-> TRUE, dbErr |-> NoErr]}

NoPayload == [n \in {} |-> ""]

\* the ways an Update is configured, its body arrives and storage answers
UpdateOptions ==
    {[DisableBind |-> db, BindMode |-> "update", BatchesSize |-> 0,
      WithAttach |-> FALSE, Db |-> "orm.db", bodyErr |-> be, stampFails |-> FALSE,
      payload |-> [n \in {"Name"} |-> "client"], dbErr |-> e] :
        db \in BOOLEAN, be \in BOOLEAN, e \in DbErrors}
    \cup
    {[DisableBind |-> FALSE, BindMode |-> m, BatchesSize |-> b, WithAttach |-> b > 0,
      Db |-> h, bodyErr |-> FALSE, stampFails |-> m = "update", payload |-> NoPayload,
      dbErr |-> NoErr] :
        m \in {"", "update", "other"}, b \in {-1, 5}, h \in Handles}

\* the record types an Add is called on
AddTypes ==
    {PtrT(StructT(t)) : t \in RecordTypes}
      \cup {PtrT(SliceT(StructT(t))) : t \in KeyTypes}

\* the numbers of records a collection holds
ItemCounts == {0, 1, 3, 20, 21, 45}

(* The ways an Add is configured, its body arrives and storage answers:     *)
(* the first family varies the batch size and the collection, the second    *)
(* the binding.                                                             *)
AddOptions ==
    {[DisableBind |-> TRUE, BindMode |-> "", BatchesSize |-> b, WithAttach |-> wa,
      Db |-> h, bodyErr |-> FALSE, stampFails |-> FALSE, payload |-> NoPayload,
      items |-> n, dbErr |-> e] :
        b \in {-1, 0, 1, 2, 25}, wa \in BOOLEAN, h \in Handles, n \in ItemCounts,
        e \in DbErrors}
    \cup
    {[DisableBind |-> db, BindMode |-> m, BatchesSize |-> 0, WithAttach |-> FALSE,
      Db |-> "orm.db", bodyErr |-> be, stampFails |-> sf,
      payload |-> [n \in {"Name"} |-> "client"], items |-> 3, dbErr |-> e] :
        db \in BOOLEAN, m \in {"", "update", "other"}, be \in BOOLEAN,
        sf \in BOOLEAN, e \in DbErrors}

-----------------------------------------------------------------------------
(* Inputs of List.                                                          *)

\* most rows of a table, and most filter functions of a config
MaxRows == 4
MaxFilters == 2

\* the i-th row of the widgets table
Row(i) ==
    [ID |-> i, Name |-> <<"bolt", "nut", "T-bolt", "bolts">>[((i - 1) % 4) + 1],
     Rank |-> i % 2]

\* the table of n rows, scanned in the order of insertion
TableRows(n) == [i \in 1..n |-> Row(i)]

\* the tables of up to MaxRows rows
Tables == {TableRows(n) : n \in 0..MaxRows}

\* the full table in other scan orders: rotated, and reversed
ScanOrders ==
    {[i \in 1..MaxRows |-> Row(((i + k) % MaxRows) + 1)] : k \in 0..(MaxRows - 1)}
      \cup {[i \in 1..MaxRows |-> Row(MaxRows + 1 - i)]}

\* the filter functions a caller may supply
FilterPool ==
    { [name |-> "odd", err |-> NoErr,
       where |-> <<[sql |-> "Rank = ?", cols |-> <<"Rank">>, op |-> "=",
                    args |-> <<1>>]>>],
      [name |-> "first", err |-> NoErr,
       where |-> <<[sql |-> "ID = ?", cols |-> <<"ID">>, op |-> "=",
                    args |-> <<1>>]>>],
      [name |-> "deny", err |-> "forbidden", where |-> <<>>] }

RECURSIVE FilterListsUpTo(_)
FilterListsUpTo(n) ==
    IF n = 0 THEN {<<>>}
    ELSE FilterListsUpTo(n - 1) \cup
         {Append(l, f) : l \in {u \in FilterListsUpTo(n - 1) : Len(u) = n - 1},
                         f \in FilterPool}

\* a field list of a config: nil, or the list
NilFields == [isNil |-> TRUE, list |-> <<>>]
FieldList(list) == [isNil |-> FALSE, list |-> list]

SearchLists ==
    {NilFields, FieldList(<<>>), FieldList(<<[Name |-> "Name", TagJson |-> "name"]>>),
     FieldList(<<[Name |-> "Name", TagJson |-> "name"], [Name |-> "", TagJson |-> "x"]>>)}

OrderLists ==
    {NilFields, FieldList(<<>>), FieldList(<<[Name |-> "ID", TagJson |-> "id"]>>),
     FieldList(<<[Name |-> "ID", TagJson |-> "id"],
                 [Name |-> "Rank", TagJson |-> "rank"]>>)}

BaseConfig ==
    [Db |-> "orm.db", Limit |-> 0, DefaultOrderBy |-> "", DefaultOrderDesc |-> FALSE,
     ScanObj |-> FALSE, DisablePagination |-> FALSE, SearchFields |-> NilFields,
     OrderFields |-> NilFields, FilterFunctions |-> <<>>]

BaseParam ==
    [Search |-> "", OrderBy |-> "", OrderDesc |-> FALSE, Page |-> 0, PageSize |-> 0]

BaseEnv(rows) ==
    [rows |-> rows, queryErr |-> NoErr, countErr |-> NoErr, fetchErr |-> NoErr]

(* The arguments of a List: the config, the request (its path and the query *)
(* parameters as bound into OrmParams) and the environment (the table, and  *)
(* the errors the query binding, Count and Find report).  Each family       *)
(* varies one part: the paging, the filters and the search, the ordering,   *)
(* the faults.                                                              *)
ListInputs ==
    {[config |-> [BaseConfig EXCEPT !.Limit = l, !.DisablePagination = dp],
      req |-> [path |-> "/widgets",
               param |-> [BaseParam EXCEPT !.Page = pg, !.PageSize = ps]],
      env |-> BaseEnv(rows)] :
        l \in {-2, -1, 0, 1, 2, 50}, dp \in BOOLEAN, pg \in {-1, 0, 1, 2},
        ps \in {-1, 0, 1, 2, 31, 60}, rows \in Tables}
    \cup
    {[config |-> [BaseConfig EXCEPT !.FilterFunctions = fs, !.SearchFields = sf],
      req |-> [path |-> "/widgets", param |-> [BaseParam EXCEPT !.Search = q]],
      env |-> [BaseEnv(rows) EXCEPT !.countErr = ce]] :
        fs \in FilterListsUpTo(MaxFilters), sf \in SearchLists,
        q \in {"", "bolt", " bolts ", "zz", "b_lt", "%"}, rows \in Tables,
        ce \in {NoErr, "no such table"}}
    \cup
    {[config |-> [BaseConfig EXCEPT !.OrderFields = of, !.DefaultOrderBy = d,
                                    !.DefaultOrderDesc = dd],
      req |-> [path |-> "/widgets",
               param |-> [BaseParam EXCEPT !.OrderBy = ob, !.OrderDesc = od]],
      env |-> BaseEnv(rows)] :
        of \in OrderLists, d \in {"", "ID", "Rank"}, dd \in BOOLEAN,
        ob \in {"", "id", "ID", " rank ", "Rank", "id;drop"}, od \in BOOLEAN,
        rows \in ScanOrders}
    \cup
    {[config |-> [BaseConfig EXCEPT !.ScanObj = so, !.FilterFunctions = fs],
      req |-> [path |-> path, param |-> BaseParam],
      env |-> [BaseEnv(TableRows(MaxRows)) EXCEPT !.queryErr = qe, !.countErr = ce,
                                                  !.fetchErr = fe]] :
        so \in BOOLEAN, fs \in {l \in FilterListsUpTo(MaxFilters) : Len(l) = 1},
        path \in {"/widgets", "/widgets//", "/"},
        qe \in {NoErr, "strconv.ParseInt"}, ce \in {NoErr, "no such table"},
        fe \in {NoErr, "context canceled"}}

-----------------------------------------------------------------------------
(* Inputs of the scope builders.                                            *)

\* structaudit.FieldInfo entries a caller puts in an allow-list
AllowFields ==
    { [Name |-> "Name", TagJson |-> "name"],
      [Name |-> "Ba",   TagJson |-> "a7"],
      [Name |-> "B",    TagJson |-> ""] }

AllowLists ==
    {<<>>} \cup {<<f>> : f \in AllowFields}
           \cup {<<f, g>> : f \in AllowFields, g \in AllowFields}

\* requested order-by texts: every short text, and some longer samples
OrderParams ==
    TextsUpTo(MaxTextLen)
      \cup {"name", "Name", " name ", "name;drop", "Name; DROP TABLE users--",
            "name desc", "1=1", "\t"}

\* structaudit.FieldInfo entries a caller puts in a list of search fields
SearchFields ==
    { [Name |-> "Name", TagJson |-> "name"],
      [Name |-> "Code", TagJson |-> "code"],
      [Name |-> "",     TagJson |-> "x"] }

SearchFieldLists ==
    {<<>>} \cup {<<f>> : f \in SearchFields}
           \cup {<<f, g>> : f \in SearchFields, g \in SearchFields}

\* search texts: every short text, and some longer samples
SearchParams ==
    TextsUpTo(MaxTextLen) \cup {"bolt", " bolts ", "\t", " \n ", "%", " nut  \t bolt"}

-----------------------------------------------------------------------------
(* Inputs of LocateFieldType and ScopeRelations.                            *)

\* most segments of a dotted path enumerated
MaxPath == 3

\* a user with an address (by pointer and by value) in a city
CityT == StructT(<<[Name |-> "Name", Type |-> [kind |-> "string"]]>>)
AddressT ==
    StructT(<<[Name |-> "City", Type |-> PtrT(CityT)],
              [Name |-> "Zip", Type |-> IntT]>>)
UserT ==
    StructT(<<[Name |-> "Name", Type |-> [kind |-> "string"]],
              [Name |-> "Address", Type |-> PtrT(AddressT)],
              [Name |-> "Home", Type |-> AddressT],
              [Name |-> "Tags", Type |-> SliceT(CityT)]>>)

\* the segments paths are made of
Segments == {"Address", "City", "Name", "Home", "Zip", "Nope", ""}

\* the paths of at most n segments, each as the sequence of its segments
RECURSIVE PathsUpTo(_)
PathsUpTo(n) ==
    IF n = 1 THEN {<<g>> : g \in Segments}
    ELSE PathsUpTo(n - 1) \cup
         {Append(p, g) : p \in {q \in PathsUpTo(n - 1) : Len(q) = n - 1},
                         g \in Segments}

\* the depths a caller passes
Depths == {-1, 0, 1, 2, 3}

\* the relation paths a caller asks to preload
RelationPaths ==
    {<<"Address">>, <<"Address", "City">>, <<"Address", "Nope">>, <<"Nope">>,
     <<"Home", "City">>, <<"Name", "x">>, <<"Tags">>}

RelationLists ==
    {<<>>} \cup {<<p>> : p \in RelationPaths}
           \cup {<<p, q>> : p \in RelationPaths, q \in RelationPaths}

-----------------------------------------------------------------------------
(* The table behind the handle, for calls that follow one another: a row    *)
(* per key, "live", "deleted" (its DeletedAt is set) or "none".             *)

\* the keys of the table, and the rows it starts with
StoreKeys == {"42", "7", "A1"}
InitialRows == [k \in StoreKeys |-> IF k = "A1" THEN "none" ELSE "live"]

\* the record type of the table's rows: a string key
StoredType == PtrT(StructT(<<[Name |-> "Code",
                              Type |-> [kind |-> "string", ptr |-> FALSE],
                              Tag |-> GormTag("primaryKey")]>>))

\* the rows a statement with the predicate `key = arg` sees
Visible(rows, c) ==
    {k \in StoreKeys : /\ k = c.arg.v
                       /\ rows[k] = "live" \/ (c.unscoped /\ rows[k] = "deleted")}

(* Delete on the table: with a DeletedAt column and without Unscoped the    *)
(* rows the statement sees get their DeletedAt set, otherwise they are      *)
(* removed; a statement that sees no row changes nothing.                   *)
StorageDelete(rows, c, hasDeletedAt) ==
    [k \in StoreKeys |->
        IF k \in Visible(rows, c)
        THEN IF hasDeletedAt /\ ~c.unscoped THEN "deleted" ELSE "none"
        ELSE rows[k]]

\* the statement Delete builds for the key value, before it is executed
DeleteStatement(config, value) ==
    [unscoped |-> ~config.SoftDelete, arg |-> [v |-> value]]

\* the ways a Delete on the table is configured, and the path values it gets
StoredDeletes ==
    {[SoftDelete |-> soft, dvk |-> d, value |-> v, hasDeletedAt |-> hd, dbErr |-> e] :
        soft \in BOOLEAN, d \in BOOLEAN, v \in StoreKeys \cup {"x;"},
        hd \in BOOLEAN, e \in {NoErr, "connection lost"}}

\* no call is in progress: the program keeps nothing from one call to the next
-----------------------------------------------------------------------------
(* Calls that run together.  Every request is served by its own goroutine;  *)
(* the Orm and its handle are shared by all of them.  A handle is a         *)
(* *gorm.DB whose settings sit behind its *Config pointer: Omit derives a   *)
(* statement that shares the pointer, Session one with a copy of the        *)
(* Config.  A goroutine's call is [pc, op, config, cfg, own, seen]: cfg is  *)
(* the handle whose Config its statement points to, or "own" for a copy.    *)

Procs == {1, 2}

\* between requests a goroutine holds no descriptor
IdleProc == [pc |-> "idle", fieldInfo |-> NoField]

\* gorm.Config{}: CreateBatchSize is 0 until somebody sets it
InitialHandles == [h \in Handles |-> [CreateBatchSize |-> 0]]

\* the value Add and Update store in CreateBatchSize
BatchSetting(config) == IF config.BatchesSize > 0 THEN config.BatchesSize ELSE -1

\* db.Omit(clause.Associations), or db.Session(...) with WithAttach, on the
\* handle or statement the call holds
Derive(proc, handles) ==
    IF ~proc.config.WithAttach THEN proc
    ELSE [proc EXCEPT !.cfg = "own",
                      !.own = IF proc.cfg = "own" THEN proc.own ELSE handles[proc.cfg]]

\* db.CreateBatchSize = ...: a write through the *Config db points to
SetCreateBatchSize(proc, handles) ==
    IF proc.cfg = "own"
    THEN [proc |-> [proc EXCEPT !.own.CreateBatchSize = BatchSetting(proc.config)],
          handles |-> handles]
    ELSE [proc |-> proc,
          handles |-> [handles EXCEPT ![proc.cfg].CreateBatchSize =
                                          BatchSetting(proc.config)]]

\* the CreateBatchSize the statement carries when the storage call runs
CreateBatchSizeOf(proc, handles) ==
    IF proc.cfg = "own" THEN proc.own.CreateBatchSize
    ELSE handles[proc.cfg].CreateBatchSize

\* mutant: one descriptor is kept and handed to every call
NewFieldInfoCached(p) == 1

\* The FieldInfo a call works on: FindFieldInfoByTag and FindFieldInfoByName
\* allocate one in every call, so call p holds its own.
NewFieldInfo(p) == p

\* the record types and path values of the calls that look a record up
LookupTypes ==
    {<<[Name |-> "Code", Type |-> [kind |-> "string", ptr |-> FALSE],
        Tag |-> GormTag("primaryKey")]>>,
     <<[Name |-> "Day", Type |-> [kind |-> "Date", ptr |-> FALSE],
        Tag |-> GormTag("primaryKey")]>>}

LookupTexts == StoreKeys \cup {"2024-02-29", "2023-11-05", "4 2"}

\* the configurations of the calls that run together
SharedConfigs ==
    [Db : Handles, BatchesSize : {0, 5, 50}, WithAttach : BOOLEAN]

Idle == call.op = "none"

Init ==
    /\ call = [op |-> "none"]
    /\ ret = [err |-> NoErr]
    /\ trace = <<>>
    /\ storage = InitialRows
    /\ handle = InitialHandles
    /\ procs = [p \in Procs |-> IdleProc]

\* the call has returned and its results were consumed by the caller
Return ==
    /\ ~Idle
    /\ call' = [op |-> "none"]
    /\ ret' = [err |-> NoErr]
    /\ trace' = <<>>
    /\ UNCHANGED <<storage, handle, procs>>

\* one call of helpers.ScopeOrder on a fresh query
OrderCall ==
    /\ Idle
    /\ \E fields \in AllowLists, param \in OrderParams, desc \in BOOLEAN :
        /\ call' = [op |-> "ScopeOrder", fields |-> fields, param |-> param,
                    desc |-> desc]
        /\ ret' = ScopeOrder(EmptyQuery, fields, param, desc)
        /\ trace' = <<>>
        /\ UNCHANGED <<storage, handle, procs>>

\* one call of structaudit.FindFieldInfoByTag
FindByTagCall ==
    /\ Idle
    /\ \E t \in RecordTypes, marker \in TagMarkers :
        LET r == FindFieldInfoByTag(t, "gorm", marker)
        IN /\ call' = [op |-> "FindFieldInfoByTag", structType |-> t,
                       tagName |-> "gorm", tagValue |-> marker]
           /\ ret' = r
           /\ trace' = <<>>
           /\ UNCHANGED <<storage, handle, procs>>

\* one call of structaudit.FindFieldInfoByName
FindByNameCall ==
    /\ Idle
    /\ \E t \in RecordTypes, name \in NameArgs :
        LET r == FindFieldInfoByName(t, name)
        IN /\ call' = [op |-> "FindFieldInfoByName", structType |-> t,
                       fieldName |-> name]
           /\ ret' = r
           /\ trace' = <<>>
           /\ UNCHANGED <<storage, handle, procs>>

\* one call of structaudit.ValidateFieldData on a fresh descriptor
ValidateCall ==
    /\ Idle
    /\ \E ty \in FieldTypes, text \in ValidateTexts :
        LET info == TagFieldInfo([Name |-> "Key", Type |-> ty, Tag |-> NoTag])
            r    == ValidateFieldData(info, text)
        IN /\ call' = [op |-> "ValidateFieldData", fieldInfo |-> info, text |-> text]
           /\ ret' = [err |-> r.err, info |-> r.info]
           /\ trace' = r.trace
           /\ UNCHANGED <<storage, handle, procs>>

\* one call of structaudit.NormalizePointerType
NormalizeCall ==
    /\ Idle
    /\ \E obj \in NormalizeArgs :
        /\ call' = [op |-> "NormalizePointerType", obj |-> obj]
        /\ ret' = NormalizePointerType(obj)
        /\ trace' = <<>>
        /\ UNCHANGED <<storage, handle, procs>>

NextAudit == FindByTagCall \/ FindByNameCall \/ ValidateCall \/ NormalizeCall \/ Return

SpecAudit == Init /\ [][NextAudit]_vars

\* one call of Bind.Json, the registry holding `policy` under mode "create"
JsonCall ==
    /\ Idle
    /\ \E policy \in Policies, fault \in BindFaults,
          payload \in ClientPayloads(BindType) :
       \E choice \in PolicyChoices(policy) :
       \E orders \in [1..Len(BindType) ->
                        KeyOrders(DOMAIN PolicyInForce(choice.mode, choice.explicit,
                                      [m \in {"create"} |-> policy]).Fields)] :
        LET registry == [m \in {"create"} |-> policy]
            r == BindJson(BindType, ZeroData(BindType), payload, fault = "body",
                          fault = "url", choice.mode, choice.explicit, registry, orders)
        IN /\ call' = [op |-> "Bind.Json", objType |-> BindType, payload |-> payload,
                       fault |-> fault, mode |-> choice.mode,
                       explicit |-> choice.explicit, registry |-> registry,
                       orders |-> orders]
           /\ ret' = r
           /\ trace' = <<>>
           /\ UNCHANGED <<storage, handle, procs>>

NextBind == JsonCall \/ Return

\* one call of Bind.FormData
FormDataCall ==
    /\ Idle
    /\ \E form \in Forms, config \in FormConfigs :
        /\ call' = [op |-> "Bind.FormData", form |-> form, config |-> config]
        /\ ret' = FormData(form, config)
        /\ trace' = <<>>
        /\ UNCHANGED <<storage, handle, procs>>

NextForm == FormDataCall \/ Return

SpecForm == Init /\ [][NextForm]_vars

SpecBind == Init /\ [][NextBind]_vars

\* one call of Orm.Get
GetCall ==
    /\ Idle
    /\ \E in \in CrudInputs, o \in GetOptions :
        LET config == [Db |-> o.Db, ColumnKey |-> in.ColumnKey,
                       KeyParam |-> in.KeyParam,
                       DisableRelations |-> o.DisableRelations,
                       DisableValidationKey |-> in.dvk]
            env == [dbErr |-> o.dbErr]
            r == OrmGet(in.objT, config, in.req, env)
        IN /\ call' = [op |-> "Orm.Get", objT |-> in.objT, config |-> config,
                       req |-> in.req, env |-> env]
           /\ ret' = r.out
           /\ trace' = r.calls
           /\ UNCHANGED <<storage, handle, procs>>

\* one call of Orm.Update
UpdateCall ==
    /\ Idle
    /\ \E in \in CrudInputs, o \in UpdateOptions :
        LET config == [Db |-> o.Db, ColumnKey |-> in.ColumnKey,
                       KeyParam |-> in.KeyParam, BatchesSize |-> o.BatchesSize,
                       WithAttach |-> o.WithAttach, BindMode |-> o.BindMode,
                       DisableBind |-> o.DisableBind,
                       DisableValidationKey |-> in.dvk]
            req == [name |-> in.req.name, value |-> in.req.value,
                    payload |-> o.payload]
            env == [dbErr |-> o.dbErr, bodyErr |-> o.bodyErr,
                    stampFails |-> o.stampFails]
            r == OrmUpdate(in.objT, config, req, env)
        IN /\ call' = [op |-> "Orm.Update", objT |-> in.objT, config |-> config,
                       req |-> req, env |-> env]
           /\ ret' = r.out
           /\ trace' = r.calls
           /\ UNCHANGED <<storage, handle, procs>>

\* one call of Orm.Delete
DeleteCall ==
    /\ Idle
    /\ \E in \in CrudInputs, o \in DeleteOptions :
        LET config == [Db |-> o.Db, ColumnKey |-> in.ColumnKey,
                       KeyParam |-> in.KeyParam, SoftDelete |-> o.SoftDelete,
                       DisableValidationKey |-> in.dvk]
            env == [dbErr |-> o.dbErr]
            r == OrmDelete(in.objT, config, in.req, env)
        IN /\ call' = [op |-> "Orm.Delete", objT |-> in.objT, config |-> config,
                       req |-> in.req, env |-> env]
           /\ ret' = r.out
           /\ trace' = r.calls
           /\ UNCHANGED <<storage, handle, procs>>

\* one call of Orm.Add
AddCall ==
    /\ Idle
    /\ \E objT \in AddTypes, o \in AddOptions :
        LET config == [Db |-> o.Db, BindMode |-> o.BindMode,
                       WithAttach |-> o.WithAttach, DisableBind |-> o.DisableBind,
                       BatchesSize |-> o.BatchesSize]
            req == [payload |-> o.payload, items |-> o.items]
            env == [dbErr |-> o.dbErr, bodyErr |-> o.bodyErr,
                    stampFails |-> o.stampFails]
            r == OrmAdd(objT, config, req, env)
        IN /\ call' = [op |-> "Orm.Add", objT |-> objT, config |-> config,
                       req |-> req, env |-> env]
           /\ ret' = r.out
           /\ trace' = r.calls
           /\ UNCHANGED <<storage, handle, procs>>

NextCrud == GetCall \/ UpdateCall \/ DeleteCall \/ Return

SpecCrud == Init /\ [][NextCrud]_vars

\* one call of Orm.List
ListCall ==
    /\ Idle
    /\ \E in \in ListInputs :
        LET r == OrmList(in.config, in.req, in.env)
        IN /\ call' = [op |-> "Orm.List", config |-> in.config, req |-> in.req,
                       env |-> in.env]
           /\ ret' = r.out
           /\ trace' = r.calls
           /\ UNCHANGED <<storage, handle, procs>>

NextList == ListCall \/ Return

SpecList == Init /\ [][NextList]_vars

(* One call of Orm.Delete on the table: the engine reports its own error  *)
(* when it has one, and otherwise none, also when no row matches; the rows *)
(* change when the call got to storage and the engine did not fail.         *)
DeleteStored ==
    /\ Idle
    /\ \E o \in StoredDeletes :
        LET config == [Db |-> "orm.db", ColumnKey |-> "", KeyParam |-> "",
                       SoftDelete |-> o.SoftDelete, DisableValidationKey |-> o.dvk]
            req == [name |-> "id", value |-> o.value]
            env == [dbErr |-> o.dbErr, hasDeletedAt |-> o.hasDeletedAt,
                    rowsAffected |->
                        Cardinality(Visible(storage,
                                            DeleteStatement(config, o.value)))]
            r == OrmDelete(StoredType, config, req, env)
        IN /\ call' = [op |-> "Orm.Delete", objT |-> StoredType, config |-> config,
                       req |-> req, env |-> env, before |-> storage]
           /\ ret' = r.out
           /\ trace' = r.calls
           /\ storage' = IF r.calls # <<>> /\ o.dbErr = NoErr
                         THEN StorageDelete(storage, r.calls[1], o.hasDeletedAt)
                         ELSE storage
           /\ UNCHANGED <<handle, procs>>

(* One call of Orm.Get on the table: First reports that no record was found *)
(* unless a live row has the key.                                           *)
GetStored ==
    /\ Idle
    /\ \E v \in StoreKeys, d \in BOOLEAN :
        LET config == [Db |-> "orm.db", ColumnKey |-> "", KeyParam |-> "",
                       DisableRelations |-> FALSE, DisableValidationKey |-> d]
            req == [name |-> "id", value |-> v]
            env == [dbErr |-> IF storage[v] = "live" THEN NoErr
                              ELSE "record not found"]
            r == OrmGet(StoredType, config, req, env)
        IN /\ call' = [op |-> "Orm.Get", objT |-> StoredType, config |-> config,
                       req |-> req, env |-> env, before |-> storage]
           /\ ret' = r.out
           /\ trace' = r.calls
           /\ UNCHANGED <<storage, handle, procs>>

\* one call of structaudit.LocateFieldType
LocateCall ==
    /\ Idle
    /\ \E objType \in {UserT, AddressT}, parts \in PathsUpTo(MaxPath),
          maxDepth \in Depths :
        /\ call' = [op |-> "LocateFieldType", objType |-> objType, parts |-> parts,
                    fieldPath |-> Join(parts, "."), maxDepth |-> maxDepth]
        /\ ret' = LocateFieldType(objType, Join(parts, "."), maxDepth)
        /\ trace' = <<>>
        /\ UNCHANGED <<storage, handle, procs>>

\* one call of helpers.ScopeRelations on a fresh query
RelationsCall ==
    /\ Idle
    /\ \E relations \in RelationLists :
        /\ call' = [op |-> "ScopeRelations", objType |-> UserT,
                    parts |-> relations,
                    relations |-> [k \in 1..Len(relations) |->
                                     Join(relations[k], ".")]]
        /\ ret' = ScopeRelations(EmptyQuery,
                                 [k \in 1..Len(relations) |-> Join(relations[k], ".")],
                                 UserT)
        /\ trace' = <<>>
        /\ UNCHANGED <<storage, handle, procs>>

NextLocate == LocateCall \/ RelationsCall \/ Return

SpecLocate == Init /\ [][NextLocate]_vars

NextStore == DeleteStored \/ GetStored \/ Return

SpecStore == Init /\ [][NextStore]_vars

\* the five operations of the Orm
\* a request arrives: Add or Update starts on config.Db, or on orm.db
BeginWrite(p) ==
    /\ procs[p].pc = "idle"
    /\ \E op \in {"Orm.Add", "Orm.Update"}, config \in SharedConfigs :
        procs' = [procs EXCEPT ![p] =
                     [pc |-> "start", op |-> op, config |-> config, cfg |-> config.Db,
                      own |-> [CreateBatchSize |-> 0], seen |-> 0]]
    /\ UNCHANGED <<call, ret, trace, storage, handle>>

\* Add derives its statement first, Update after it has set the batch size
DeriveStep(p) ==
    /\ \/ procs[p].pc = "start" /\ procs[p].op = "Orm.Add"
       \/ procs[p].pc = "set" /\ procs[p].op = "Orm.Update"
    /\ procs' = [procs EXCEPT ![p] = [Derive(procs[p], handle) EXCEPT !.pc =
                    IF procs[p].op = "Orm.Add" THEN "derived" ELSE "ready"]]
    /\ UNCHANGED <<call, ret, trace, storage, handle>>

\* Update sets the batch size on the handle, Add on the derived statement
SetBatchStep(p) ==
    /\ \/ procs[p].pc = "start" /\ procs[p].op = "Orm.Update"
       \/ procs[p].pc = "derived" /\ procs[p].op = "Orm.Add"
    /\ LET w == SetCreateBatchSize(procs[p], handle)
       IN /\ procs' = [procs EXCEPT ![p] = [w.proc EXCEPT !.pc =
                          IF procs[p].op = "Orm.Add" THEN "ready" ELSE "set"]]
          /\ handle' = w.handles
    /\ UNCHANGED <<call, ret, trace, storage>>

\* the storage call runs with the settings its statement carries by then
StoreStep(p) ==
    /\ procs[p].pc = "ready"
    /\ procs' = [procs EXCEPT ![p].pc = "done",
                              ![p].seen = CreateBatchSizeOf(procs[p], handle)]
    /\ UNCHANGED <<call, ret, trace, storage, handle>>

\* the call returns
EndCall(p) ==
    /\ procs[p].pc = "done"
    /\ procs' = [procs EXCEPT ![p] = IdleProc]
    /\ UNCHANGED <<call, ret, trace, storage, handle>>

\* a request arrives: Get, Update or Delete starts with its path value
BeginLookup(p) ==
    /\ procs[p].pc = "idle"
    /\ \E op \in {"Orm.Get", "Orm.Update", "Orm.Delete"}, t \in LookupTypes,
          text \in LookupTexts, dvk \in BOOLEAN :
        procs' = [procs EXCEPT ![p] =
                     [pc |-> "start", op |-> op, objType |-> t, text |-> text,
                      DisableValidationKey |-> dvk, fieldInfo |-> procs[p].fieldInfo,
                      err |-> NoErr, where |-> <<>>]]
    /\ UNCHANGED <<call, ret, trace, storage, handle>>

\* the identity field is resolved: the call gets its descriptor
ResolveStep(p) ==
    /\ procs[p].pc = "start"
    /\ LET key == FindFieldInfoByTag(procs[p].objType, "gorm", "primaryKey")
           held == [procs EXCEPT ![NewFieldInfo(p)].fieldInfo = key.info]
       IN procs' = [held EXCEPT ![p].pc = "resolved"]
    /\ UNCHANGED <<call, ret, trace, storage, handle>>

\* ValidateFieldData stores the coerced value in the descriptor; with
\* DisableValidationKey the text is matched against the pattern instead
ValidateStep(p) ==
    /\ procs[p].pc = "resolved"
    /\ IF procs[p].DisableValidationKey
       THEN procs' = [procs EXCEPT ![p].pc = IF MatchValidPattern(procs[p].text)
                                             THEN "validated" ELSE "done",
                                  ![p].err = IF MatchValidPattern(procs[p].text)
                                             THEN NoErr ELSE ErrValidatingIDParam]
       ELSE LET r == ValidateFieldData(procs[NewFieldInfo(p)].fieldInfo, procs[p].text)
                held == [procs EXCEPT ![NewFieldInfo(p)].fieldInfo = r.info]
            IN procs' = [held EXCEPT ![p].pc = IF r.err = NoErr THEN "validated"
                                               ELSE "done",
                                     ![p].err = IF r.err = NoErr THEN NoErr
                                                ELSE ErrValidatingIDParam]
    /\ UNCHANGED <<call, ret, trace, storage, handle>>

\* value = fieldInfo.Value (or the text), and the statement with the key
\* predicate goes to storage
QueryStep(p) ==
    /\ procs[p].pc = "validated"
    /\ LET fieldInfo == procs[NewFieldInfo(p)].fieldInfo
           value == IF procs[p].DisableValidationKey
                    THEN [form |-> "val", kind |-> "string", v |-> procs[p].text]
                    ELSE fieldInfo.Value
       IN procs' = [procs EXCEPT ![p].pc = "done",
                                 ![p].where = <<[query |-> fieldInfo.Name \o " = ?",
                                                 arg |-> value]>>]
    /\ UNCHANGED <<call, ret, trace, storage, handle>>

NextKeys ==
    \E p \in Procs : BeginLookup(p) \/ ResolveStep(p) \/ ValidateStep(p)
                        \/ QueryStep(p) \/ EndCall(p)

SpecKeys == Init /\ [][NextKeys]_vars

NextHandle ==
    \E p \in Procs : BeginWrite(p) \/ DeriveStep(p) \/ SetBatchStep(p)
                        \/ StoreStep(p) \/ EndCall(p)

SpecHandle == Init /\ [][NextHandle]_vars

\* one call of Api.Error
ApiErrorCall ==
    /\ Idle
    /\ \E e \in ErrorEnvelopes :
        /\ call' = [op |-> "Api.Error", e |-> e]
        /\ ret' = ApiError(e)
        /\ trace' = <<>>
        /\ UNCHANGED <<storage, handle, procs>>

\* one call of Api.OK
ApiOKCall ==
    /\ Idle
    /\ \E a \in ApiEnvelopes :
        /\ call' = [op |-> "Api.OK", a |-> a]
        /\ ret' = ApiOK(a)
        /\ trace' = <<>>
        /\ UNCHANGED <<storage, handle, procs>>

NextApi == ApiErrorCall \/ ApiOKCall \/ Return

SpecApi == Init /\ [][NextApi]_vars

\* one call of Configuration.Get
ConfigGetCall ==
    /\ Idle
    /\ \E configurations \in Configurations, path \in ConfigPathsUpTo(MaxPath),
          defaultValue \in ConfigDefaults :
        /\ call' = [op |-> "Configuration.Get", configurations |-> configurations,
                    path |-> path, defaultValue |-> defaultValue]
        /\ ret' = [value |-> ConfigurationGet(configurations, path, defaultValue)]
        /\ trace' = <<>>
        /\ UNCHANGED <<storage, handle, procs>>

NextConfig == ConfigGetCall \/ Return

SpecConfig == Init /\ [][NextConfig]_vars

NextOrm == AddCall \/ GetCall \/ UpdateCall \/ DeleteCall \/ ListCall \/ Return

SpecOrm == Init /\ [][NextOrm]_vars

\* one call of helpers.ScopeSearch on a fresh query
SearchCall ==
    /\ Idle
    /\ \E fields \in SearchFieldLists, param \in SearchParams :
        /\ call' = [op |-> "ScopeSearch", fields |-> fields, param |-> param]
        /\ ret' = ScopeSearch(EmptyQuery, fields, param)
        /\ trace' = <<>>
        /\ UNCHANGED <<storage, handle, procs>>

NextScope == OrderCall \/ SearchCall \/ Return

SpecScope == Init /\ [][NextScope]_vars

-----------------------------------------------------------------------------
-----------------------------------------------------------------------------
(* C5: ValidateFieldData round-trips: applied to the text encoding of a     *)
(* value v of the field's kind (bool, integer, float, string, Date) it      *)
(* succeeds and leaves in the descriptor a value equal to v.                *)
C5_RoundTripAsClaimed ==
    call.op = "ValidateFieldData" =>
        LET kind == call.fieldInfo.Type.kind
        IN \A v \in SampleValues(kind) :
              call.text = EncodeText(kind, v) =>
                  (ret.err = NoErr /\ ret.info.Value.v = v)

(* C6: ValidateFieldData calls the generic decode first; it calls the       *)
(* type's Scan only after the generic decode failed, and then always when   *)
(* the type has one; it returns an error exactly when the generic decode    *)
(* failed and the type has no Scan or its Scan failed; and on every error   *)
(* the descriptor is as it was before the call.                             *)
C6_GenericThenScan ==
    call.op = "ValidateFieldData" =>
        LET kind == call.fieldInfo.Type.kind
        IN /\ Len(trace) >= 1 /\ trace[1].fn = "json.Unmarshal"
           /\ \A i \in 1..Len(trace) :
                 trace[i].fn = "Scan" => (i = 2 /\ ~trace[1].ok)
           /\ trace[1].ok => (Len(trace) = 1 /\ ret.err = NoErr)
           /\ (~trace[1].ok /\ HasScan(kind)) => Len(trace) = 2
           /\ ret.err # NoErr <=>
                 /\ ~trace[1].ok
                 /\ \/ ~HasScan(kind)
                    \/ (Len(trace) = 2 /\ ~trace[2].ok)
           /\ ret.err # NoErr => ret.info = call.fieldInfo
           /\ ret.err = NoErr => ret.info.Value.form \in {"ptr", "val"}

\* a Date text the generic decode and Scan both refuse
C6_Witness ==
    /\ call.op = "ValidateFieldData"
    /\ call.fieldInfo.Type.kind = "Date"
    /\ call.text = "2024-13-01"
    /\ Len(trace) = 2 /\ trace[2].fn = "Scan"
    /\ ret.err = ErrScanValue
    /\ ret.info = call.fieldInfo

(* C7: FindFieldInfoByTag returns the descriptor of the field whose tag     *)
(* contains the marker when exactly one field matches, and fails with no    *)
(* descriptor when no field or several fields match; FindFieldInfoByName    *)
(* does the same with a case-insensitive exact match on the field name.     *)
C7_FindExactlyOne ==
    /\ call.op = "FindFieldInfoByTag" =>
          LET t == call.structType
              m == {i \in 1..Len(t) :
                       Contains(TagGet(t[i], call.tagName), call.tagValue)}
          IN /\ Cardinality(m) = 1 =>
                   /\ ret.err = NoErr
                   /\ \A i \in m : /\ ret.info.Name = t[i].Name
                                   /\ ret.info.Type = t[i].Type
             /\ Cardinality(m) # 1 => (ret.err # NoErr /\ ret.info = NoField)
    /\ call.op = "FindFieldInfoByName" =>
          LET t == call.structType
              m == {i \in 1..Len(t) :
                       LET a == t[i].Name  b == call.fieldName
                       IN /\ Len(a) = Len(b)
                          /\ \A k \in 1..Len(a) :
                                LowerChar(Char(a, k)) = LowerChar(Char(b, k))}
          IN /\ Cardinality(m) = 1 =>
                   /\ ret.err = NoErr
                   /\ \A i \in m : /\ ret.info.Name = t[i].Name
                                   /\ ret.info.Type = t[i].Type
             /\ Cardinality(m) # 1 => (ret.err # NoErr /\ ret.info = NoField)

\* two fields carry the identity marker: the lookup fails
C7_Witness ==
    /\ call.op = "FindFieldInfoByTag"
    /\ call.tagValue = "primaryKey"
    /\ Len(call.structType) = 2
    /\ \A i \in 1..2 : Contains(TagGet(call.structType[i], "gorm"), "primaryKey")
    /\ ret.err = ErrMultipleFields
    /\ ret.info = NoField

(* C8: after Bind.Json succeeds with a bind mode or explicit AutoFields,     *)
(* every settable field that matches an auto-field rule whose value key is  *)
(* defined holds a system-produced value whatever the client sent; fields   *)
(* matching no rule keep the client's value; and when a value-producing     *)
(* function fails Json returns its error with no auto-field assigned.       *)
C8_AutoFieldsAsClaimed ==
    (call.op = "Bind.Json" /\ (call.explicit.given \/ call.mode # "")
       /\ call.fault = "none") =>
        LET af      == PolicyInForce(call.mode, call.explicit, call.registry)
            t       == call.objType
            client  == ShouldBindJSON(t, ZeroData(t), call.payload)
            system  == {af.Values[k].val : k \in DOMAIN af.Values}
            nameRule(f, defined) ==
                \E p \in DOMAIN af.Fields :
                    /\ Contains(f.Name, p)
                    /\ defined => af.Fields[p] \in DOMAIN af.Values
            tagRule(f, defined) ==
                \E k \in 1..Len(af.Tags) :
                    /\ Contains(TagGet(f, af.Tags[k].Name), af.Tags[k].Key)
                    /\ defined => af.Tags[k].Value \in DOMAIN af.Values
            failing == \E k \in DOMAIN af.Values :
                          af.Values[k].src # "static" /\ af.Values[k].fails
        IN /\ ret.err = NoErr =>
                \A i \in 1..Len(t) :
                    /\ (CanSet(t[i]) /\ (nameRule(t[i], TRUE) \/ tagRule(t[i], TRUE)))
                          => ret.data[t[i].Name] \in system
                    /\ ~(nameRule(t[i], FALSE) \/ tagRule(t[i], FALSE))
                          => ret.data[t[i].Name] = client[t[i].Name]
           /\ failing => (ret.err = ErrProducer /\ ret.data = client)
           /\ ~failing => ret.err = NoErr


-----------------------------------------------------------------------------
(* Get, Update and Delete.                                                  *)

\* the storage terminal methods among the calls made
StorageCalls(calls) ==
    SelectSeq(calls, LAMBDA c : c.fn \in {"First", "UpdateColumns", "Delete",
                                          "Count", "Find", "Scan",
                                          "Create", "CreateInBatches"})

\* whether obj is a pointer to a record or to a slice of records
PointsToRecords(objT) ==
    /\ objT.kind = "ptr"
    /\ \/ objT.elem.kind = "struct"
       \/ objT.elem.kind = "slice" /\ objT.elem.elem.kind = "struct"

\* the fields of the record type behind obj
RecordFields(objT) ==
    IF objT.elem.kind = "struct" THEN objT.elem.fields ELSE objT.elem.elem.fields

\* the fields that qualify as the identity field of the call in progress
IdentityFields ==
    LET fields == RecordFields(call.objT)
    IN IF call.config.ColumnKey # ""
       THEN {i \in 1..Len(fields) : EqualFold(fields[i].Name, call.config.ColumnKey)}
       ELSE {i \in 1..Len(fields) :
                Contains(TagGet(fields[i], "gorm"), "primaryKey")}

C4_KeyResolutionPrecedesStorage ==
    (call.op \in {"Orm.Get", "Orm.Update", "Orm.Delete"}
       /\ PointsToRecords(call.objT)) =>
    /\ Cardinality(IdentityFields) # 1 =>
          /\ ret.err.Code = 500
          /\ ret.err.Type = TypeUnknown
          /\ ret.err.Message = ErrObtainingObjectInfo
          /\ ret.err.Error \in {ErrNoFieldFound, ErrMultipleFields}
          /\ ret.api = NoApi
          /\ StorageCalls(trace) = <<>>
    /\ StorageCalls(trace) # <<>> =>
          /\ Cardinality(IdentityFields) = 1
          /\ \A k \in 1..Len(StorageCalls(trace)) :
                StorageCalls(trace)[k].query =
                  RecordFields(call.objT)[CHOOSE i \in IdentityFields : TRUE].Name
                    \o " = ?"

\* an Update with DisableBind on a type without identity field was refused
C4_Witness ==
    /\ call.op = "Orm.Update"
    /\ call.config.DisableBind
    /\ call.config.ColumnKey = ""
    /\ PointsToRecords(call.objT)
    /\ IdentityFields = {}
    /\ Len(RecordFields(call.objT)) >= 1
    /\ ret.err.Message = ErrObtainingObjectInfo
    /\ StorageCalls(trace) = <<>>


-----------------------------------------------------------------------------
(* List.                                                                    *)

\* the List in progress returned its envelope
ListDone == call.op = "Orm.List" /\ ret.err.Code = 0

(* C3: in every List that returns its envelope, the page size of the        *)
(* envelope follows from the client's page size c, the configured limit l   *)
(* and the row count t: c <= 0 and l = -1 give t; c <= 0 and l = 0 give 30; *)
(* c <= 0 and l > 0 give l; c > l > 0 gives l; 0 < c <= l gives c.  The     *)
(* statement fetched from carries the same size as its limit.               *)
C3_PageSizeResolved ==
    ListDone =>
    LET c == call.req.param.PageSize
        l == call.config.Limit
        t == ret.api.TotalRows
        r == ret.api.Meta.pageSize
    IN /\ (c <= 0 /\ l = -1) => r = t
       /\ (c <= 0 /\ l = 0) => r = 30
       /\ (c <= 0 /\ l > 0) => r = l
       /\ (c > l /\ l > 0) => r = l
       /\ (0 < c /\ c <= l) => r = c
       /\ ~call.config.DisablePagination => trace[Len(trace)].db.limit = <<r>>

\* a client asked for 60 rows a page under a limit of 50 and got 50
C3_Witness ==
    /\ ListDone
    /\ call.req.param.PageSize = 60
    /\ call.config.Limit = 50
    /\ ret.api.Meta.pageSize = 50
    /\ trace[Len(trace)].db.limit = <<50>>

\* the place of a call in the pipeline of List
StageOf(fn) ==
    CASE fn = "filter" -> 1
      [] fn = "ScopeSearch" -> 2
      [] fn = "Count" -> 3
      [] fn = "Order" -> 4
      [] fn = "ScopeOrder" -> 5
      [] fn = "ScopePagination" -> 6
      [] fn \in {"Find", "Scan"} -> 7

(* C9: the calls of every List come in the order filters, search, count,    *)
(* default order, requested order, pagination, fetch, each stage but the    *)
(* filters at most once; the statement counted carries no order, offset or  *)
(* limit; and the count of the envelope is the number of rows of the table  *)
(* that satisfy every filter and the search, whatever page and page size    *)
(* are asked for; page 0 with a page size that is not below the count       *)
(* returns all of these rows.                                               *)
C9_StagesInOrder ==
    call.op = "Orm.List" =>
    LET clean == CleanText(call.req.param.Search)
        names == call.config.SearchFields.list
        fs    == call.config.FilterFunctions
        hits  == {i \in 1..Len(call.env.rows) :
                    /\ \A k \in 1..Len(fs) : \A j \in 1..Len(fs[k].where) :
                          Holds(call.env.rows[i], fs[k].where[j])
                    /\ (clean # "" /\ names # <<>>) =>
                          \E k \in 1..Len(names) :
                              Like(call.env.rows[i][names[k].Name],
                                   "%" \o clean \o "%")}
    IN /\ \A i, j \in 1..Len(trace) :
             i < j => /\ StageOf(trace[i].fn) <= StageOf(trace[j].fn)
                      /\ StageOf(trace[j].fn) > 1 =>
                            StageOf(trace[i].fn) < StageOf(trace[j].fn)
       /\ \A i \in 1..Len(trace) :
             trace[i].fn = "Count" =>
                /\ trace[i].db.order = <<>>
                /\ trace[i].db.offset = <<>>
                /\ trace[i].db.limit = <<>>
       /\ ListDone =>
             /\ ret.api.TotalRows = Cardinality(hits)
             /\ \E i \in 1..Len(trace) : trace[i].fn = "Count"
             /\ trace[Len(trace)].fn \in {"Find", "Scan"}
             /\ (ret.api.Meta.page = 0 /\ ret.api.Meta.pageSize >= Cardinality(hits))
                   => {ret.api.Data[k].ID : k \in 1..Len(ret.api.Data)}
                         = {call.env.rows[i].ID : i \in hits}

\* search "bolt", limit unset, page 0, three matching rows of four
C9_Witness ==
    /\ ListDone
    /\ call.req.param.Search = "bolt"
    /\ call.config.SearchFields.list # <<>>
    /\ call.config.Limit = 0
    /\ call.req.param.Page = 0
    /\ Len(call.env.rows) = 4
    /\ ret.api.TotalRows = 3
    /\ ret.api.Meta.pageSize = 30
    /\ Len(ret.api.Data) = 3
    /\ ret.api.Links.next = "/widgets?page=1&pageSize=30"
    /\ [k \in 1..Len(trace) |-> trace[k].fn]
          = <<"ScopeSearch", "Count", "ScopePagination", "Find">>

(* C10: once the query parameters are bound, List calls the filter          *)
(* functions in their order in the config, the first on the statement of    *)
(* the handle and each next one on the statement the one before returned,   *)
(* before anything else; at the first filter that returns an error List     *)
(* returns status 400 with that error, no later filter is called, no scope  *)
(* is applied and no storage terminal method is called.                     *)
C10_FiltersInOrder ==
    (call.op = "Orm.List" /\ call.env.queryErr = NoErr) =>
    LET fs     == call.config.FilterFunctions
        bad    == {k \in 1..Len(fs) : fs[k].err # NoErr}
        called == IF bad = {} THEN Len(fs)
                  ELSE CHOOSE k \in bad : \A j \in bad : k <= j
    IN /\ Len(trace) >= called
       /\ \A k \in 1..Len(trace) : trace[k].fn = "filter" <=> k <= called
       /\ \A k \in 1..called :
             /\ trace[k].name = fs[k].name
             /\ trace[k].db = IF k = 1 THEN EmptyQuery
                              ELSE [trace[k - 1].db EXCEPT
                                       !.where = @ \o fs[k - 1].where]
       /\ bad # {} =>
             /\ Len(trace) = called
             /\ ret.api = NoApi
             /\ ret.err.Code = 400
             /\ ret.err.Message = ErrParamsQuery
             /\ ret.err.Error = fs[called].err

\* the first of two filters failed: the second was not called, nor storage
C10_Witness ==
    /\ call.op = "Orm.List"
    /\ Len(call.config.FilterFunctions) = 2
    /\ call.config.FilterFunctions[1].err # NoErr
    /\ call.config.FilterFunctions[2].err = NoErr
    /\ Len(trace) = 1
    /\ trace[1].fn = "filter"
    /\ ret.err.Code = 400

\* the statement the rows of the List in progress were fetched on
Fetched == trace[Len(trace)].db

(* C11: as claimed, in every List that returns its envelope the statement   *)
(* fetched on carries at most one order clause per column, whether the      *)
(* client names the field by its logical name or by its external name: the  *)
(* default clause is present only if DefaultOrderBy is set and the client's *)
(* request did not resolve to that same column.                             *)
C11_OneOrderClausePerColumn ==
    ListDone =>
    LET order  == Fetched.order
        fields == call.config.OrderFields.list
        m      == OrderMatch(fields, CleanText(call.req.param.OrderBy))
        asked  == IF m = 0 THEN "" ELSE fields[m].Name
    IN /\ \A i, j \in 1..Len(order) : order[i].Column = order[j].Column => i = j
       /\ (call.config.DefaultOrderBy # "" /\ asked = call.config.DefaultOrderBy)
             => order = <<[Column |-> asked, Desc |-> call.req.param.OrderDesc]>>

(* C12: every List that returns its envelope carries the links self, next   *)
(* and prev: the request path with its trailing slashes removed, then the   *)
(* page (the requested page, 0 when that is negative), the page plus one    *)
(* and the page minus one, each with the page size of the envelope; prev    *)
(* is -1 on page 0, and next is there whatever the number of rows.          *)
C12_LinksFollowPage ==
    ListDone =>
    LET path == call.req.path
        cut  == CHOOSE n \in 0..Len(path) :
                   /\ \A i \in (n + 1)..Len(path) : Char(path, i) = "/"
                   /\ n > 0 => Char(path, n) # "/"
        base == SubSeq(path, 1, cut)
        page == IF call.req.param.Page < 0 THEN 0 ELSE call.req.param.Page
        size == ret.api.Meta.pageSize
        Num(n) == IF n < 0 THEN "-" \o Itoa(-n) ELSE Itoa(n)
        Link(p) == base \o "?page=" \o Num(p) \o "&pageSize=" \o Num(size)
    IN /\ ret.api.Meta.page = page
       /\ ret.api.Links.self = Link(page)
       /\ ret.api.Links.next = Link(page + 1)
       /\ ret.api.Links.prev = Link(page - 1)
       /\ ~call.config.DisablePagination =>
             /\ Fetched.limit = <<size>>
             /\ Fetched.offset = <<page * size>>

\* page 0 of a table that fits on it, the path ending in slashes
C12_Witness ==
    /\ ListDone
    /\ call.req.path = "/widgets//"
    /\ call.req.param.Page = 0
    /\ ret.api.TotalRows = Len(ret.api.Data)
    /\ ret.api.Links.self = "/widgets?page=0&pageSize=30"
    /\ ret.api.Links.next = "/widgets?page=1&pageSize=30"
    /\ ret.api.Links.prev = "/widgets?page=-1&pageSize=30"

-----------------------------------------------------------------------------
\* whether the text is made of blanks only, the empty text included
Blank(text) == \A i \in 1..Len(text) : Char(text, i) \in {" ", "\t", "\n", "\f", "\r"}

\* whether some field of the list has an empty column name
SomeNameEmpty(fields) == \E i \in 1..Len(fields) : fields[i].Name = ""

(* C13: ScopeSearch fails with ErrNameNotValid whenever a configured search *)
(* field has an empty column name and the search text holds a character     *)
(* that is no blank, and then adds no predicate; when the text is empty or  *)
(* all blanks it returns the query as it is without error, whatever the     *)
(* fields; otherwise it adds one predicate, a LIKE on every field, unless   *)
(* the list is empty.                                                       *)
C13_SearchNameChecked ==
    call.op = "ScopeSearch" =>
    /\ (SomeNameEmpty(call.fields) /\ ~Blank(call.param)) =>
          (ret.err = ErrNameNotValid /\ ret.db = EmptyQuery)
    /\ Blank(call.param) => (ret.err = NoErr /\ ret.db = EmptyQuery)
    /\ (~SomeNameEmpty(call.fields) /\ ~Blank(call.param)) =>
          /\ ret.err = NoErr
          /\ Len(ret.db.where) = IF call.fields = <<>> THEN 0 ELSE 1
          /\ \A k \in 1..Len(ret.db.where) :
                /\ ret.db.where[k].op = "LIKE"
                /\ ret.db.where[k].cols
                     = [i \in 1..Len(call.fields) |-> call.fields[i].Name]

\* a search for bolt over a list whose second field has no name was refused
C13_Witness ==
    /\ call.op = "ScopeSearch"
    /\ call.param = "bolt"
    /\ Len(call.fields) = 2
    /\ call.fields[1].Name = "Name"
    /\ call.fields[2].Name = ""
    /\ ret.err = ErrNameNotValid
    /\ ret.db.where = <<>>

(* C13 as claimed: ScopeSearch fails with ErrNameNotValid whenever a        *)
(* configured search field has an empty column name, for every search       *)
(* text, and then adds no predicate.                                        *)
C13_AsClaimed ==
    (call.op = "ScopeSearch" /\ SomeNameEmpty(call.fields)) =>
        (ret.err = ErrNameNotValid /\ ret.db.where = <<>>)

-----------------------------------------------------------------------------
(* C14: as claimed, every error of the caller's configuration comes back    *)
(* from Get, Update, Delete and List with a status of 500 to 599, never one *)
(* of 400 to 499: no or several identity fields, a ColumnKey that names no  *)
(* field, and a search field with an empty column name.                     *)
C14_ConfigErrorsAreServerErrors ==
    /\ (call.op \in {"Orm.Get", "Orm.Update", "Orm.Delete"}
          /\ PointsToRecords(call.objT) /\ Cardinality(IdentityFields) # 1) =>
            (ret.err.Code >= 500 /\ ret.err.Code <= 599)
    /\ (call.op = "Orm.List" /\ ret.err.Error = ErrNameNotValid) =>
            (ret.err.Code >= 500 /\ ret.err.Code <= 599)

-----------------------------------------------------------------------------
(* The five operations together.                                            *)

\* the call in progress returned its envelope
Succeeded == ret.err.Code = 0 /\ ~ret.panic

\* the binder of the Add or Update in progress returns an error
BinderFails ==
    /\ ~call.config.DisableBind
    /\ \/ call.env.bodyErr
       \/ call.config.BindMode = "update" /\ call.env.stampFails

\* the error the last storage call of the call in progress reported
StorageError ==
    LET stored == StorageCalls(trace)
        last   == stored[Len(stored)].fn
    IN IF stored = <<>> THEN NoErr
       ELSE IF call.op # "Orm.List" THEN call.env.dbErr
       ELSE IF last = "Count" THEN call.env.countErr ELSE call.env.fetchErr

(* C15: an Add, and an Update that got as far as binding, whose binder      *)
(* returns an error (the body is malformed, a value function fails) returns *)
(* status 400 with kind BIND and makes no storage call, and so does a List  *)
(* whose query parameters fail to bind; in every operation a storage call   *)
(* that reports an error ends the call with status 500, kind DB and that    *)
(* error; and no call returns kind DB without a failed storage call.        *)
C15_BindAndStorageFailures ==
    call.op # "none" =>
    /\ ( /\ \/ call.op = "Orm.Add"
            \/ /\ call.op = "Orm.Update"
               /\ PointsToRecords(call.objT)
               /\ Cardinality(IdentityFields) = 1
         /\ BinderFails ) =>
           /\ ret.err.Code = 400
           /\ ret.err.Type = TypeBind
           /\ ret.err.Message = ErrReadingDeclaredModel
           /\ ret.api = NoApi
           /\ StorageCalls(trace) = <<>>
    /\ (call.op = "Orm.List" /\ call.env.queryErr # NoErr) =>
           /\ ret.err.Code = 400
           /\ ret.err.Type = TypeBind
           /\ ret.err.Error = call.env.queryErr
           /\ ret.api = NoApi
           /\ trace = <<>>
    /\ StorageError # NoErr =>
           /\ ret.err.Code = 500
           /\ ret.err.Type = TypeDB
           /\ ret.err.Error = StorageError
           /\ ret.api = NoApi
    /\ ret.err.Type = TypeDB => StorageError # NoErr

\* an Add whose body was malformed came back with 400 before any storage call
C15_Witness ==
    /\ call.op = "Orm.Add"
    /\ call.env.bodyErr
    /\ ~call.config.DisableBind
    /\ ret.err.Code = 400
    /\ ret.err.Type = TypeBind
    /\ StorageCalls(trace) = <<>>

(* C16: Add, Get, Update and Delete call at most one storage terminal       *)
(* method, and exactly one when they return their envelope; List calls at   *)
(* most two, Count first and then Find or Scan, and exactly these two when  *)
(* it returns its envelope.                                                 *)
C16_TerminalCalls ==
    call.op # "none" =>
    LET fns == [k \in 1..Len(StorageCalls(trace)) |-> StorageCalls(trace)[k].fn]
    IN IF call.op = "Orm.List"
       THEN /\ fns \in {<<>>, <<"Count">>, <<"Count", "Find">>, <<"Count", "Scan">>}
            /\ Succeeded => Len(fns) = 2
       ELSE /\ Len(fns) <= 1
            /\ Succeeded => Len(fns) = 1
            /\ \A k \in 1..Len(fns) :
                  fns[k] = CASE call.op = "Orm.Get" -> "First"
                             [] call.op = "Orm.Update" -> "UpdateColumns"
                             [] call.op = "Orm.Delete" -> "Delete"
                             [] call.op = "Orm.Add" ->
                                  IF call.objT.elem.kind = "slice"
                                  THEN "CreateInBatches" ELSE "Create"

\* a List returned its envelope after a Count and a Find
C16_Witness ==
    /\ ListDone
    /\ Len(ret.api.Data) >= 1
    /\ [k \in 1..Len(trace) |-> trace[k].fn] = <<"Count", "ScopePagination", "Find">>

(* C16 as claimed: each of Add, Get, Update, Delete and List calls exactly  *)
(* one storage terminal method whenever it returns its envelope, and at     *)
(* most one on any call.                                                    *)
C16_AsClaimed ==
    call.op # "none" =>
        /\ Len(StorageCalls(trace)) <= 1
        /\ Succeeded => Len(StorageCalls(trace)) = 1

(* C18: the storage call of an Add is CreateInBatches when obj is a         *)
(* collection, with the batch size BatchesSize when that is positive and 20 *)
(* otherwise, the records going out in INSERTs of that size and a last one  *)
(* of what remains; it is Create, one INSERT, when obj is one record; the   *)
(* associations are written exactly when WithAttach is set; and an Add that *)
(* returns its envelope has made this call.                                 *)
C18_AddBatches ==
    call.op = "Orm.Add" =>
    LET stored == StorageCalls(trace)
        coll   == call.objT.elem.kind = "slice"
        size   == IF call.config.BatchesSize > 0 THEN call.config.BatchesSize ELSE 20
        n      == call.req.items
    IN /\ Len(stored) <= 1
       /\ Succeeded => Len(stored) = 1
       /\ \A k \in 1..Len(stored) :
             LET c == stored[k]
             IN /\ c.attach = call.config.WithAttach
                /\ coll =>
                     /\ c.fn = "CreateInBatches"
                     /\ c.batches = size
                     /\ Len(c.inserts) = (n + size - 1) \div size
                     /\ \A i \in 1..Len(c.inserts) :
                           c.inserts[i] = IF i * size <= n THEN size
                                          ELSE n - (i - 1) * size
                /\ ~coll => (c.fn = "Create" /\ c.inserts = <<1>>)

\* 45 records and no batch size configured: INSERTs of 20, 20 and 5
C18_Witness ==
    /\ call.op = "Orm.Add"
    /\ call.config.BatchesSize = 0
    /\ ~call.config.WithAttach
    /\ call.req.items = 45
    /\ Succeeded
    /\ Len(trace) = 2
    /\ trace[2].fn = "CreateInBatches"
    /\ trace[2].inserts = <<20, 20, 5>>
    /\ ~trace[2].attach

-----------------------------------------------------------------------------
\* the names of the fields whose gorm tag holds the marker, in declaration order
MarkedNames(fields, marker) ==
    LET marked == SelectSeq(fields, LAMBDA f : Contains(TagGet(f, "gorm"), marker))
    IN [k \in 1..Len(marked) |-> marked[k].Name]

(* C17: as claimed, a Get that returns its envelope reports in it the names *)
(* of the record type's foreignKey fields in declaration order followed by  *)
(* those of its many2many fields, unless DisableRelations is set, and then  *)
(* the envelope carries no relation names.                                  *)
C17_RelationsUnlessDisabled ==
    (call.op = "Orm.Get" /\ Succeeded) =>
        ret.api.Relationships =
            IF call.config.DisableRelations THEN <<>>
            ELSE MarkedNames(RecordFields(call.objT), "foreignKey")
                   \o MarkedNames(RecordFields(call.objT), "many2many")

-----------------------------------------------------------------------------
\* a Delete on the table is in progress, and asks for a soft delete
SoftDeleteStored ==
    /\ call.op = "Orm.Delete"
    /\ "before" \in DOMAIN call
    /\ call.config.SoftDelete

(* C19: a Delete with SoftDelete and a valid key returns its envelope       *)
(* whenever the engine reports no error, whether the row of that key is     *)
(* live, was soft-deleted by an earlier call or is not there at all; so the *)
(* second of two such calls in a row succeeds like the first, and it leaves *)
(* the table as it found it.                                                *)
C19_SoftDeleteTwice ==
    (SoftDeleteStored /\ call.req.value \in StoreKeys /\ call.env.dbErr = NoErr) =>
        /\ Succeeded
        /\ ret.api.Data = "obj"
        /\ Len(trace) = 1
        /\ call.before[call.req.value] # "live" => storage = call.before
        /\ storage[call.req.value] # "live"

\* the row of key 42 was soft-deleted by an earlier call, and the Delete succeeded
C19_Witness ==
    /\ SoftDeleteStored
    /\ call.req.value = "42"
    /\ call.env.hasDeletedAt
    /\ call.before["42"] = "deleted"
    /\ call.env.rowsAffected = 0
    /\ Succeeded
    /\ storage["42"] = "deleted"

-----------------------------------------------------------------------------
(* The type at the end of a path: every segment names a field of the type   *)
(* reached, and every segment but the last a field that points to a struct. *)
RECURSIVE Walk(_, _)
Walk(typ, segs) ==
    LET named == {i \in 1..Len(typ.fields) : typ.fields[i].Name = Head(segs)}
        field == typ.fields[CHOOSE i \in named : TRUE]
    IN IF named = {} THEN [ok |-> FALSE, typ |-> "nil"]
       ELSE IF Len(segs) = 1 THEN [ok |-> TRUE, typ |-> field.Type]
       ELSE IF field.Type.kind = "ptr" /\ field.Type.elem.kind = "struct"
       THEN Walk(field.Type.elem, Tail(segs))
       ELSE [ok |-> FALSE, typ |-> "nil"]

(* C20: as claimed, LocateFieldType called with a depth that allows the     *)
(* hops of the path (-1, or at least the number of hops) returns the type   *)
(* of the last segment when every hop exists and goes through a pointer to  *)
(* a struct, and ErrFieldNotExist otherwise; and ScopeRelations fails with  *)
(* ErrFieldNotExist when a relation path has a broken hop, and adds a       *)
(* preload only for paths without one.                                      *)
C20_LocateFollowsPath ==
    /\ (call.op = "LocateFieldType"
          /\ (call.maxDepth = -1 \/ Len(call.parts) - 1 <= call.maxDepth)) =>
            IF Walk(call.objType, call.parts).ok
            THEN ret.err = NoErr /\ ret.typ = Walk(call.objType, call.parts).typ
            ELSE ret.err = ErrFieldNotExist
    /\ call.op = "ScopeRelations" =>
            IF \A k \in 1..Len(call.parts) : Walk(call.objType, call.parts[k]).ok
            THEN ret.err = NoErr /\ ret.db.preload = call.relations
            ELSE ret.err = ErrFieldNotExist

-----------------------------------------------------------------------------
(* C21: as claimed, NormalizePointerType returns the record type for a      *)
(* pointer to a struct and for a pointer to a slice of structs, returns     *)
(* ErrNotPointer for every argument that is not a pointer, and returns      *)
(* ErrInvalidStructure for a pointer to anything else, a pointer to a slice *)
(* whose elements are not structs included.                                 *)
C21_NormalizeAsClaimed ==
    call.op = "NormalizePointerType" =>
        LET obj == call.obj
        IN IF obj.kind # "ptr"
           THEN ~ret.panic /\ ret.err = ErrNotPointer
           ELSE IF obj.elem.kind = "struct"
           THEN ~ret.panic /\ ret.err = NoErr /\ ret.typ = obj.elem
           ELSE IF obj.elem.kind = "slice" /\ obj.elem.elem.kind = "struct"
           THEN ~ret.panic /\ ret.err = NoErr /\ ret.typ = obj.elem.elem
           ELSE ~ret.panic /\ ret.err = ErrInvalidStructure

-----------------------------------------------------------------------------
\* the entries of a comma-separated allow-list
RECURSIVE AllowListed(_)
AllowListed(allowed) ==
    IF \E i \in 1..Len(allowed) : Char(allowed, i) = ","
    THEN LET i == Min({j \in 1..Len(allowed) : Char(allowed, j) = ","})
         IN {SubSeq(allowed, 1, i - 1)} \cup AllowListed(SubSeq(allowed, i + 1, Len(allowed)))
    ELSE {allowed}

\* the limit the files of a call are held to
SizeLimit == IF call.config.MaxFileSize = 0 THEN 20971520 ELSE call.config.MaxFileSize

\* the files sent for a declared slot
SentFor(slot) == call.form.File[slot.Param]

TooMany(slot) == Len(SentFor(slot)) > slot.FilesAllowed
TooLarge(file) == file.Size > SizeLimit
BadExtension(slot, file) ==
    /\ slot.AllowedExtension # ""
    /\ ToLower(FilepathExt(file.Filename)) \notin AllowListed(slot.AllowedExtension)

(* C22: as claimed, Bind.FormData on a multipart request fails with one of  *)
(* ErrTooManyFiles, ErrFileTooLarge and ErrInvalidFileExtension when a      *)
(* declared slot holds more files than FilesAllowed, a file of a declared   *)
(* slot is larger than MaxFileSize (20 MB when unset), or its lower-cased   *)
(* extension is not an entry of a non-empty AllowedExtension, with the      *)
(* error of the violation when only one kind occurs; and every file in      *)
(* FilesDatas passed all three checks.                                      *)
C22_FilesChecked ==
    (call.op = "Bind.FormData" /\ call.form.multipart) =>
        LET slots == call.config.FilesParams
            many  == \E i \in 1..Len(slots) : TooMany(slots[i])
            large == \E i \in 1..Len(slots) : \E k \in 1..Len(SentFor(slots[i])) :
                        TooLarge(SentFor(slots[i])[k])
            ext   == \E i \in 1..Len(slots) : \E k \in 1..Len(SentFor(slots[i])) :
                        BadExtension(slots[i], SentFor(slots[i])[k])
        IN /\ (many \/ large \/ ext) =>
                ret.err \in {ErrTooManyFiles, ErrFileTooLarge, ErrInvalidFileExtension}
           /\ (many /\ ~large /\ ~ext) => ret.err = ErrTooManyFiles
           /\ (large /\ ~many /\ ~ext) => ret.err = ErrFileTooLarge
           /\ (ext /\ ~many /\ ~large) => ret.err = ErrInvalidFileExtension
           /\ \A i \in 1..Len(ret.params) : \A k \in 1..Len(ret.params[i].FilesDatas) :
                LET file == ret.params[i].FilesDatas[k].File
                IN /\ ~TooMany(slots[i])
                   /\ ~TooLarge(file)
                   /\ ~BadExtension(slots[i], file)

-----------------------------------------------------------------------------
(* C23: as claimed, Add and Update leave every storage handle as it was,    *)
(* and the batch size in force when a call reaches storage is the one its   *)
(* own config chose, whatever other calls run on the same handle.           *)
C23_NoStateRetained ==
    /\ handle = InitialHandles
    /\ \A p \in Procs :
          procs[p].pc = "done" => procs[p].seen = BatchSetting(procs[p].config)

-----------------------------------------------------------------------------
\* the value ValidateFieldData coerces a path text to, for a key of the type
Coerced(objType, text) ==
    ValidateFieldData(TagFieldInfo(objType[1]), text).info.Value

(* C24: whatever Get, Update and Delete calls run together, a call that     *)
(* reaches storage does so with one key predicate, on the identity column   *)
(* of its own record type and with the value coerced from its own path      *)
(* text (the text itself with DisableValidationKey).                        *)
C24_OwnKeyValue ==
    \A p \in Procs :
        (procs[p].pc = "done" /\ procs[p].err = NoErr) =>
            /\ Len(procs[p].where) = 1
            /\ procs[p].where[1].query = procs[p].objType[1].Name \o " = ?"
            /\ procs[p].where[1].arg.v
                 = IF procs[p].DisableValidationKey THEN procs[p].text
                   ELSE Coerced(procs[p].objType, procs[p].text).v
            /\ ~procs[p].DisableValidationKey =>
                 procs[p].where[1].arg = Coerced(procs[p].objType, procs[p].text)

\* two calls on the same type with the keys 42 and 7 both reached storage,
\* each with its own value
C24_Witness ==
    /\ \A p \in Procs : /\ procs[p].pc = "done"
                         /\ procs[p].err = NoErr
                         /\ procs[p].objType[1].Name = "Code"
                         /\ ~procs[p].DisableValidationKey
    /\ procs[1].text = "42" /\ procs[1].where[1].arg.v = "42"
    /\ procs[2].text = "7" /\ procs[2].where[1].arg.v = "7"

-----------------------------------------------------------------------------
\* a text with every run of blanks squeezed to one space, none in front
RECURSIVE Squeeze(_, _)
Squeeze(text, afterBlank) ==
    IF text = "" THEN ""
    ELSE LET rest == SubSeq(text, 2, Len(text))
         IN IF Char(text, 1) \in {" ", "\t", "\n", "\f", "\r"}
            THEN (IF afterBlank THEN "" ELSE " ") \o Squeeze(rest, TRUE)
            ELSE Char(text, 1) \o Squeeze(rest, FALSE)

\* the search text as it is matched: blanks squeezed, none at either end
SearchText(text) ==
    LET t == Squeeze(text, TRUE)
    IN IF t # "" /\ Char(t, Len(t)) = " " THEN SubSeq(t, 1, Len(t) - 1) ELSE t

(* C25: ScopeSearch returns the query as it is when the search text is      *)
(* empty or all blanks, and when it is not and there are no fields; with a  *)
(* text that is not blank and n >= 1 fields that all have a column name it  *)
(* adds exactly one condition, the OR of n LIKE predicates, one per field   *)
(* in list order, each bound to %t%, t being the text with its runs of      *)
(* blanks collapsed and trimmed; with a field without a column name it      *)
(* fails and adds nothing.                                                  *)
C25_SearchPredicate ==
    call.op = "ScopeSearch" =>
        LET n == Len(call.fields)
            t == SearchText(call.param)
        IN IF Blank(call.param) \/ n = 0
           THEN ret.err = NoErr /\ ret.db = EmptyQuery
           ELSE IF SomeNameEmpty(call.fields)
           THEN ret.err = ErrNameNotValid /\ ret.db = EmptyQuery
           ELSE /\ ret.err = NoErr
                /\ ret.db = [EmptyQuery EXCEPT !.where = ret.db.where]
                /\ Len(ret.db.where) = 1
                /\ ret.db.where[1].op = "LIKE"
                /\ ret.db.where[1].cols = [i \in 1..n |-> call.fields[i].Name]
                /\ ret.db.where[1].args = [i \in 1..n |-> "%" \o t \o "%"]
                /\ ret.db.where[1].sql
                     = "(" \o Join([i \in 1..n |-> call.fields[i].Name \o " LIKE ?"],
                                   " OR ") \o ")"

\* a text with runs of blanks searched in two fields
C25_Witness ==
    /\ call.op = "ScopeSearch"
    /\ call.param = " nut  \t bolt"
    /\ Len(call.fields) = 2
    /\ ret.err = NoErr
    /\ Len(ret.db.where) = 1
    /\ ret.db.where[1].sql = "(Name LIKE ? OR Code LIKE ?)"
    /\ ret.db.where[1].args = <<"%nut bolt%", "%nut bolt%">>

(* C25 as claimed: with a search text that is not blank and n >= 1 fields,  *)
(* ScopeSearch adds exactly one condition, the OR of n LIKE predicates.     *)
C25_AsClaimed ==
    (call.op = "ScopeSearch" /\ ~Blank(call.param) /\ Len(call.fields) >= 1) =>
        /\ Len(ret.db.where) = 1
        /\ Len(ret.db.where[1].cols) = Len(call.fields)

-----------------------------------------------------------------------------
(* C26: as claimed, in every List that returns its envelope the resolved    *)
(* page and page size are not negative, whatever the client's page and      *)
(* page size, the configured limit and the row count, and so neither are    *)
(* the offset and the limit of the statement fetched from.                  *)
C26_PagingNotNegative ==
    ListDone =>
        /\ ret.api.Meta.page >= 0
        /\ ret.api.Meta.pageSize >= 0
        /\ ~call.config.DisablePagination =>
              /\ Fetched.limit = <<ret.api.Meta.pageSize>>
              /\ Fetched.offset = <<ret.api.Meta.page * ret.api.Meta.pageSize>>
              /\ Fetched.offset[1] >= 0

-----------------------------------------------------------------------------
\* the column names a List may order by, and the ones it may search in
OrderColumns ==
    {call.config.OrderFields.list[i].Name : i \in 1..Len(call.config.OrderFields.list)}
      \cup {call.config.DefaultOrderBy}
SearchColumns ==
    {call.config.SearchFields.list[i].Name : i \in 1..Len(call.config.SearchFields.list)}

(* C27: every column a statement of List is ordered by is the Name of an    *)
(* entry of the configured OrderFields or the configured DefaultOrderBy;    *)
(* every search condition names the configured SearchFields only, its text  *)
(* built from their names, and carries the search text as bound arguments;  *)
(* and the predicate of every storage call of Get, Update and Delete is     *)
(* `<Name> = ?` on a field of the record type, the path value being its     *)
(* bound argument.                                                          *)
C27_ColumnsFromConfig ==
    /\ call.op = "Orm.List" =>
          \A k \in 1..Len(trace) :
             trace[k].fn \in {"Count", "Find", "Scan"} =>
                /\ \A o \in 1..Len(trace[k].db.order) :
                      trace[k].db.order[o].Column \in OrderColumns
                /\ \A w \in 1..Len(trace[k].db.where) :
                      trace[k].db.where[w].op = "LIKE" =>
                         LET c == trace[k].db.where[w]
                         IN /\ \A i \in 1..Len(c.cols) : c.cols[i] \in SearchColumns
                            /\ c.sql = "(" \o Join([i \in 1..Len(c.cols) |->
                                                       c.cols[i] \o " LIKE ?"], " OR ")
                                          \o ")"
                            /\ \A i \in 1..Len(c.args) :
                                  c.args[i] = "%" \o SearchText(call.req.param.Search)
                                                  \o "%"
    /\ call.op \in {"Orm.Get", "Orm.Update", "Orm.Delete"} =>
          \A k \in 1..Len(StorageCalls(trace)) :
             LET c == StorageCalls(trace)[k]
             IN /\ PointsToRecords(call.objT)
                /\ \E i \in 1..Len(RecordFields(call.objT)) :
                      c.query = RecordFields(call.objT)[i].Name \o " = ?"
                /\ c.arg.v = CtxParam(call.req, KeyParamOf(call.config))
                     \/ ~call.config.DisableValidationKey

\* a Get by the path value "1 OR 1=1" reached storage with the predicate on
\* the key column and the text as its argument
C27_Witness ==
    /\ call.op = "Orm.Get"
    /\ CtxParam(call.req, KeyParamOf(call.config)) = "1 OR 1=1"
    /\ Len(StorageCalls(trace)) = 1
    /\ StorageCalls(trace)[1].query = RecordFields(call.objT)[1].Name \o " = ?"
    /\ StorageCalls(trace)[1].arg.v = "1 OR 1=1"

-----------------------------------------------------------------------------
(* C28: as claimed, the assignment GetAutoFields returns for a record type, *)
(* a policy and a request is the same on every call, whatever the order in  *)
(* which the name patterns of the policy come up; and a field whose name    *)
(* contains a pattern with a defined value gets the value of such a         *)
(* pattern, never that of a tag rule.                                       *)
C28_AutoFieldsDeterministic ==
    (call.op = "Bind.Json" /\ (call.explicit.given \/ call.mode # "")
       /\ call.fault = "none") =>
        LET af   == PolicyInForce(call.mode, call.explicit, call.registry)
            t    == call.objType
            this == GetAutoFields(t, af, call.orders)
            byPattern(f) == {af.Values[af.Fields[p]].val :
                                p \in {q \in DOMAIN af.Fields :
                                          /\ Contains(f.Name, q)
                                          /\ af.Fields[q] \in DOMAIN af.Values}}
        IN /\ \A again \in [1..Len(t) -> KeyOrders(DOMAIN af.Fields)] :
                GetAutoFields(t, af, again) = this
           /\ this.err = NoErr =>
                \A i \in 1..Len(t) :
                    byPattern(t[i]) # {} =>
                        /\ t[i].Name \in DOMAIN this.map
                        /\ this.map[t[i].Name] \in byPattern(t[i])

-----------------------------------------------------------------------------
\* the keys of a dotted path
RECURSIVE PathKeys(_)
PathKeys(path) ==
    IF \E i \in 1..Len(path) : Char(path, i) = "."
    THEN LET i == Min({j \in 1..Len(path) : Char(path, j) = "."})
         IN <<SubSeq(path, 1, i - 1)>> \o PathKeys(SubSeq(path, i + 1, Len(path)))
    ELSE <<path>>

\* the value configured under a path: found is FALSE when a key on the way,
\* or the last one, is not there
RECURSIVE Configured(_, _)
Configured(node, keys) ==
    IF keys = <<>> THEN [found |-> TRUE, value |-> node]
    ELSE IF node.kind = "map" /\ keys[1] \in DOMAIN node.entries
    THEN Configured(node.entries[keys[1]], Tail(keys))
    ELSE [found |-> FALSE, value |-> node]

(* C29: as claimed, Configuration.Get returns the configured value when     *)
(* every key of the dotted path resolves, and the given default when a key  *)
(* on the way or the last key is missing.                                   *)
C29_GetOrDefault ==
    call.op = "Configuration.Get" =>
        LET c == Configured(MapValue(call.configurations),
                            PathKeys(call.path))
        IN ret.value = IF c.found THEN c.value ELSE call.defaultValue


\* C30: every response Api.OK or Api.Error writes carries in its status field
\* the HTTP status code handed to the transport; Api.Error takes the error's
\* Code, or 500 when Code is 0, writes success=false and a kind that is DB,
\* BIND or UNKNOWN; Api.OK takes 200, or 204 when Data is nil, and writes
\* success=true.
C30_StatusIsTransportCode ==
    /\ call.op = "Api.Error" =>
        /\ ret.body.Status = ret.code
        /\ ret.code = IF call.e.Code = 0 THEN 500 ELSE call.e.Code
        /\ ret.body.Success = FALSE
        /\ ret.body.ErrorDetail.Type \in {"DB", "BIND", "UNKNOWN"}
    /\ call.op = "Api.OK" =>
        /\ ret.body.Status = ret.code
        /\ ret.body.Status = IF call.a.Data = "nil" THEN 204 ELSE 200
        /\ ret.body.Success = TRUE

====
